---- MODULE Spec2Model ----
(***************************************************************************)
(* Model of the trip-tracker route builder (frontend/src/components/       *)
(* Map.tsx) and of its persistence API (backend/src/routes/map.ts,         *)
(* backend/src/models/RouteState.ts).                                      *)
(*                                                                         *)
(* Every asynchronous handler invocation of the React component is a task: *)
(* a record holding the values its closure captured when it was invoked,   *)
(* the label at which it continues after its current await, and the        *)
(* response it is waiting for.  In the frontend specifications a request   *)
(* is served by the backend when it is issued and its response reaches the *)
(* handler in a later step, so continuations of different handlers         *)
(* interleave freely.  The session-state specification runs the backend    *)
(* handler await by await.  Coordinates are integers in units of 1e-7      *)
(* degree.                                                                 *)
(***************************************************************************)
EXTENDS Integers, Sequences, FiniteSets, TLC

\* ------------------------------------------------------------------ bounds
MaxClients == 2
MaxTasks == 2
MaxRoutes == 2
MaxWaypoints == 2
MaxBuilds == 2
NumColors == 2
MaxTimers == 1
MaxMarkers == 2
MaxSamples == 3
MaxCreates == 3

\* --------------------------------------------------------------- constants
\* 0.000001 degree, in units of 1e-7 degree
DupTolerance == 10

ROUTE_COLORS == << "#0000FF", "#FF0000", "#00FF00", "#800080", "#FFA500" >>

NoColor == ""
NoPoint == << >>

Lat(p) == p[1]
Lng(p) == p[2]

PtA == << 400000000, -820000000 >>
PtNearA == << 400000005, -820000000 >>
PtB == << 410000000, -830000000 >>
Points == { PtA, PtNearA, PtB }

\* initialCenter and initialZoom of MapProps; the zoom of a selected place
InitialCenter == << 400964000, -822618000 >>
InitialZoom == 12
PlaceZoom == 14

MaxChosen == MaxWaypoints + 1

ColorChoices == { ROUTE_COLORS[i] : i \in 1..NumColors }

TaskIds == 1..MaxTasks
ClientIds == 1..MaxClients

Abs(x) == IF x < 0 THEN -x ELSE x

\* a[a.length - 1] (undefined on an empty array) and a.slice(0, -1)
Last(s) == IF Len(s) = 0 THEN NoPoint ELSE s[Len(s)]
ButLast(s) == IF Len(s) = 0 THEN << >> ELSE SubSeq(s, 1, Len(s) - 1)

\* ------------------------------------------------------------------- state
VARIABLES
  routeStates,    \* backend: the RouteState collection, in insertion order
  dbRoutes,       \* backend: the Route collection, in insertion order
  nextId,         \* backend: next identifier the store assigns
  dbMarkers,      \* backend: the Marker collection, in insertion order
  handlers,       \* backend: /route-state handlers in progress, per client
  tasks,          \* frontend: in-flight handler invocations
  isAddingRoute,  \* Map.tsx useState
  routePoints,    \* Map.tsx useState
  savedRoutes,    \* Map.tsx useState
  selectedRoute,  \* Map.tsx useState
  selectedColor,  \* Map.tsx useState
  showColorPalette, \* Map.tsx useState
  routeError,     \* Map.tsx useState
  errorTimers,    \* pending setTimeout(() => setRouteError(null), 3000)
  hist,           \* the points chosen in the current build and the number of
                  \* builds started; read by the properties and the bounds
  markers,        \* Map.tsx useState
  selectedMarker, \* Map.tsx useState
  showDeleteConfirm, \* Map.tsx useState
  itemToDelete,   \* Map.tsx useState
  isLoaded,       \* useLoadScript
  isRecording,    \* Map.tsx useState
  isFollowingLocation, \* Map.tsx useState
  path,           \* Map.tsx useState
  currentLocation, \* Map.tsx useState
  watch,          \* the watchPosition callback registered by the last effect
  mapCenter,      \* Map.tsx useState
  mapZoom,        \* Map.tsx useState
  mapRef,         \* center and zoom of the google.maps.Map
  centerUpdateTimer, \* the pending 100 ms timer of handleMapCenterChanged
  received,       \* history: the samples that arrived while recording was on,
                  \* since recording was last started
  lastEvent,      \* history: center and zoom at the last change event
  confirmed       \* history: the items whose deletion was confirmed

deleteVars == << markers, selectedMarker, showDeleteConfirm, itemToDelete >>
viewVars == << isLoaded, isRecording, isFollowingLocation, path, currentLocation,
              watch, mapCenter, mapZoom, mapRef, centerUpdateTimer >>

\* the markers, the delete dialog, the control panel and the map view
sideVars == << deleteVars, viewVars, received, lastEvent, confirmed >>

vars == << routeStates, dbRoutes, nextId, dbMarkers, handlers, tasks, isAddingRoute,
           routePoints, savedRoutes, selectedRoute, selectedColor,
           showColorPalette, routeError, errorTimers, hist, sideVars >>

backendVars == << routeStates, dbRoutes, nextId, dbMarkers >>
uiVars == << isAddingRoute, routePoints, savedRoutes, selectedRoute,
             selectedColor, showColorPalette, routeError, errorTimers >>

\* ------------------------------------------------------------ data model
EmptyRoutePoints == [ start |-> NoPoint, end |-> NoPoint, waypoints |-> << >> ]

NoRoute == [ id |-> 0, start |-> NoPoint, end |-> NoPoint, waypoints |-> << >>,
             overviewPath |-> << >>, distance |-> "", duration |-> "",
             color |-> NoColor ]

NoStateDoc == [ routeStep |-> "", startLocation |-> NoPoint, color |-> NoColor ]

NoReq == [ method |-> "", routeStep |-> "", startLocation |-> NoPoint,
           id |-> 0, position |-> NoPoint, route |-> NoRoute ]

NoResult == [ overview_path |-> << >>, distance |-> "", duration |-> "" ]

NoResp == [ ok |-> FALSE, status |-> 0, state |-> NoStateDoc, route |-> NoRoute,
            routes |-> << >>, result |-> NoResult, dirStatus |-> "",
            markers |-> << >> ]

\* itemToDelete: no item
NoItem == [ type |-> "", id |-> 0 ]

NoTask == [ kind |-> "idle", pc |-> "", resp |-> NoResp, loc |-> NoPoint,
            cRoutePoints |-> EmptyRoutePoints, cSavedRoutes |-> << >>,
            cSelectedRoute |-> NoRoute, cSelectedColor |-> NoColor,
            color |-> NoColor,
            state |-> NoStateDoc, chosen |-> << >>, calls |-> {},
            stale |-> FALSE, item |-> NoItem ]

NoHandler == [ pc |-> "idle", req |-> NoReq, status |-> 0, isNew |-> FALSE,
               state |-> NoStateDoc ]

Idle(t) == tasks[t].kind = "idle"

\* the free slot a new handler invocation gets
FreeTask(t) == /\ Idle(t)
               /\ \A u \in TaskIds : Idle(u) => t <= u

\* ------------------------------------------------ frontend: saveRoute
\* isDuplicate of saveRoute: some loaded route has start and end within
\* 0.000001 degree of the new route's, in both coordinates
IsDuplicate(routes, routeData) ==
  \E i \in 1..Len(routes) :
    /\ Abs(Lat(routes[i].start) - Lat(routeData.start)) < DupTolerance
    /\ Abs(Lng(routes[i].start) - Lng(routeData.start)) < DupTolerance
    /\ Abs(Lat(routes[i].end) - Lat(routeData.end)) < DupTolerance
    /\ Abs(Lng(routes[i].end) - Lng(routeData.end)) < DupTolerance

\* ------------------------------------------------- backend: /route-state
\* RouteState.findOne(): the first document in natural order, or none
FindOne(docs) == IF Len(docs) = 0 THEN 0 ELSE 1

\* RouteStateSchema.pre('save'): a new document is refused when the
\* collection already holds one
PreSaveRejects(count, isNew) == count > 0 /\ isNew

\* GET creates the document at step 'start'
StateDocToWriteStart(req, old) ==
  IF req.method = "GET"
  THEN [ routeStep |-> "start", startLocation |-> NoPoint, color |-> NoColor ]
  ELSE [ old EXCEPT !.routeStep = req.routeStep,
                    !.startLocation = req.startLocation ]

\* the document the handler writes: GET creates {waypoint, null}; PUT takes
\* routeStep and startLocation from the body and nothing else
StateDocToWrite(req, old) ==
  IF req.method = "GET"
  THEN [ routeStep |-> "waypoint", startLocation |-> NoPoint, color |-> NoColor ]
  ELSE [ old EXCEPT !.routeStep = req.routeStep,
                    !.startLocation = req.startLocation ]

\* the body updateRouteState(routeStep, data) sends: {routeStep, color} when
\* data is a string, {routeStep, startLocation: data} otherwise; the handler
\* reads routeStep and startLocation only
UpdateBody(routeStep, startLocation) ==
  [ NoReq EXCEPT !.method = "PUT", !.routeStep = routeStep,
                 !.startLocation = startLocation ]

GetBody == [ NoReq EXCEPT !.method = "GET" ]

\* router.get('/route-state') and router.put('/route-state'), start to end:
\* the collection afterwards and the status and body of the answer
ServeRouteState(docs, req) ==
  LET i == FindOne(docs)
      doc == StateDocToWrite(req, IF i = 0 THEN NoStateDoc ELSE docs[i])
  IN IF i = 0
     THEN IF PreSaveRejects(Len(docs), TRUE)
          THEN [ docs |-> docs, status |-> 500, state |-> NoStateDoc ]
          ELSE [ docs |-> Append(docs, doc), status |-> 200, state |-> doc ]
     ELSE IF req.method = "GET"
     THEN [ docs |-> docs, status |-> 200, state |-> docs[i] ]
     ELSE [ docs |-> [docs EXCEPT ![i] = doc], status |-> 200, state |-> doc ]

\* --- the same handlers, one await at a time (c is the requesting client)
\* a client sends GET /route-state
ClientGet(c) ==
  /\ handlers[c].pc = "idle"
  /\ handlers' = [handlers EXCEPT ![c] =
       [ NoHandler EXCEPT !.pc = "findOne", !.req = GetBody ]]
  /\ UNCHANGED << backendVars, tasks, uiVars, hist >>
  /\ UNCHANGED sideVars

\* a client sends PUT /route-state with a body updateRouteState builds
ClientPut(c) ==
  /\ handlers[c].pc = "idle"
  /\ \E step \in {"start", "waypoint", "color"}, p \in Points \cup {NoPoint} :
       /\ step # "start" => p = NoPoint
       /\ handlers' = [handlers EXCEPT ![c] =
            [ NoHandler EXCEPT !.pc = "findOne", !.req = UpdateBody(step, p) ]]
  /\ UNCHANGED << backendVars, tasks, uiVars, hist >>
  /\ UNCHANGED sideVars

\* await RouteState.findOne(): with a document, GET answers and PUT assigns
\* and saves it (a write to the document found; documents are never
\* deleted); without one the handler goes on to RouteState.create()
RS_FindOne(c) ==
  /\ handlers[c].pc = "findOne"
  /\ LET h == handlers[c]
         i == FindOne(routeStates)
     IN IF i = 0
        THEN /\ handlers' = [handlers EXCEPT ![c] =
                  [h EXCEPT !.pc = "preSave", !.isNew = TRUE]]
             /\ UNCHANGED routeStates
        ELSE /\ routeStates' = ServeRouteState(routeStates, h.req).docs
             /\ handlers' = [handlers EXCEPT ![c] =
                  [h EXCEPT !.pc = "done", !.status = 200,
                            !.state = ServeRouteState(routeStates, h.req).state]]
  /\ UNCHANGED << dbRoutes, nextId, dbMarkers, tasks, uiVars, hist >>
  /\ UNCHANGED sideVars

\* pre('save') of the new document: await countDocuments()
RS_PreSave(c) ==
  /\ handlers[c].pc = "preSave"
  /\ LET h == handlers[c]
     IN IF PreSaveRejects(Len(routeStates), TRUE)
        THEN handlers' = [handlers EXCEPT ![c] =
                            [h EXCEPT !.pc = "done", !.status = 500]]
        ELSE handlers' = [handlers EXCEPT ![c] = [h EXCEPT !.pc = "insert"]]
  /\ UNCHANGED << backendVars, tasks, uiVars, hist >>
  /\ UNCHANGED sideVars

\* the insert of RouteState.create()
RS_Insert(c) ==
  /\ handlers[c].pc = "insert"
  /\ routeStates' = Append(routeStates, StateDocToWrite(handlers[c].req, NoStateDoc))
  /\ handlers' = [handlers EXCEPT ![c] =
       [@ EXCEPT !.pc = "done", !.status = 200,
                 !.state = StateDocToWrite(handlers[c].req, NoStateDoc)]]
  /\ UNCHANGED << dbRoutes, nextId, dbMarkers, tasks, uiVars, hist >>
  /\ UNCHANGED sideVars

\* the client receives the answer
ClientDone(c) ==
  /\ handlers[c].pc = "done"
  /\ handlers' = [handlers EXCEPT ![c] = NoHandler]
  /\ UNCHANGED << backendVars, tasks, uiVars, hist >>
  /\ UNCHANGED sideVars

\* ------------------------------------------------------- backend: /routes
\* RouteSchema: every field is required (an empty string fails 'required')
RouteValid(r) ==
  /\ r.start # NoPoint
  /\ r.end # NoPoint
  /\ r.distance # ""
  /\ r.duration # ""
  /\ r.color # NoColor

\* Route.find().sort({createdAt: -1})
RECURSIVE Reverse(_)
Reverse(s) == IF s = << >> THEN << >> ELSE Append(Reverse(Tail(s)), Head(s))

\* router.post('/routes'): the body's _id is dropped, the store assigns one
ServeRoutesPost(docs, id, body) ==
  LET savedRoute == [ body EXCEPT !.id = id ]
  IN IF RouteValid(body)
     THEN [ docs |-> Append(docs, savedRoute), status |-> 201, route |-> savedRoute ]
     ELSE [ docs |-> docs, status |-> 400, route |-> NoRoute ]

\* router.get('/routes')
ServeRoutesGet(docs) == Reverse(docs)

\* ------------------------------------------------------ backend: /markers
\* identifiers a caller may put into the _id of a body: none (0), a
\* client-side placeholder that is no ObjectId, or ObjectIds of its own making
NoId == 0
PlaceholderId == -1
ForeignIds == { 901, 902 }
SuppliedIds == { NoId, PlaceholderId } \cup ForeignIds

\* the value casts to an ObjectId
WellFormedId(id) == id > 0

NoMarker == [ id |-> NoId, position |-> NoPoint ]

\* MarkerSchema: position.lat and position.lng are required
MarkerValid(m) == m.position # NoPoint

\* router.post('/markers'): new Marker(req.body).save() keeps the _id of the
\* body; an _id that does not cast fails validation and an _id already in
\* the collection fails the insert, both answered 400
ServeMarkersPost(docs, id, body) ==
  LET savedMarker == [ body EXCEPT !.id = IF body.id = NoId THEN id ELSE body.id ]
  IN IF /\ body.id # NoId => WellFormedId(body.id)
        /\ MarkerValid(body)
        /\ \A i \in 1..Len(docs) : docs[i].id # savedMarker.id
     THEN [ docs |-> Append(docs, savedMarker), status |-> 201,
            marker |-> savedMarker ]
     ELSE [ docs |-> docs, status |-> 400, marker |-> NoMarker ]

\* ------------------------------------------- external: directions service
\* the collaborator is an opaque function of the request; the path it
\* returns here runs through the requested stops
DirectionsResult(origin, destination, waypoints) ==
  [ overview_path |-> << origin >> \o waypoints \o << destination >>,
    distance |-> "12 km", duration |-> "10 mins" ]

\* google.maps.DirectionsStatus, as far as the builder's failures go
DirectionsStatus ==
  { "OK", "ZERO_RESULTS", "REQUEST_DENIED", "OVER_QUERY_LIMIT",
    "INVALID_REQUEST", "MAX_WAYPOINTS_EXCEEDED" }

\* ------------------------------------------------ frontend: the requests
\* a handler invocation awaits: it continues at label when resp arrives
Awaiting(tk, label, call, resp) ==
  [ tk EXCEPT !.pc = label, !.resp = resp, !.calls = @ \cup {call} ]

\* the handler invocation resumes at label with its response
Resumes(t, kind, label) ==
  /\ tasks[t].kind = kind
  /\ tasks[t].pc = label

\* fetch(.../route-state) with the given body, issued by task t (ts is the
\* task table otherwise): served now, or the transport fails; what
\* updateRouteState returns is read by none of its callers
CallRouteState(t, ts, tk, label, req) ==
  \E ok \in BOOLEAN :
    LET served == ServeRouteState(routeStates, req)
        call == IF req.method = "GET" THEN "GET /route-state"
                                      ELSE "PUT /route-state"
    IN /\ routeStates' = IF ok THEN served.docs ELSE routeStates
       /\ tasks' = [ts EXCEPT ![t] = Awaiting(tk, label, call,
            IF ok /\ served.status = 200 /\ req.method = "GET"
            THEN [NoResp EXCEPT !.ok = TRUE, !.status = 200, !.state = served.state]
            ELSE NoResp)]

\* fetchRouteState()
FetchRouteState(t, ts, tk, label) == CallRouteState(t, ts, tk, label, GetBody)

\* updateRouteState(routeStep, data)
UpdateRouteState(t, ts, tk, label, routeStep, startLocation) ==
  CallRouteState(t, ts, tk, label, UpdateBody(routeStep, startLocation))

\* directionsService.route(request): a result, or a failure status
CallDirections(t, tk, label, origin, destination, waypoints) ==
  \E status \in DirectionsStatus :
    tasks' = [tasks EXCEPT ![t] = Awaiting(tk, label, "directions",
      IF status = "OK"
      THEN [NoResp EXCEPT !.ok = TRUE, !.dirStatus = status,
              !.result = DirectionsResult(origin, destination, waypoints)]
      ELSE [NoResp EXCEPT !.dirStatus = status])]

\* mapApi.saveRoute(route): created and answered, created and the answer
\* lost, or not delivered
CallSaveRoute(t, tk, label, route) ==
  \E outcome \in {"ok", "lost", "fail"} :
    LET served == ServeRoutesPost(dbRoutes, nextId, route)
        applied == outcome # "fail" /\ served.status = 201
    IN /\ applied => Len(dbRoutes) < MaxRoutes
       /\ dbRoutes' = IF applied THEN served.docs ELSE dbRoutes
       /\ nextId' = IF applied THEN nextId + 1 ELSE nextId
       /\ tasks' = [tasks EXCEPT ![t] = Awaiting(tk, label, "POST /routes",
            IF applied /\ outcome = "ok"
            THEN [NoResp EXCEPT !.ok = TRUE, !.route = served.route]
            ELSE NoResp)]

\* ------------------------------------------------ frontend: loadData effect
\* useEffect(loadData, [renderKey]): mapApi.getRoutes() and
\* mapApi.getMarkers()
LoadData ==
  [ NoTask EXCEPT !.kind = "loadData", !.pc = "loadData.after",
                  !.calls = {"GET /routes", "GET /markers"} ]

LoadDataCall(t) ==
  \E ok \in BOOLEAN :
    tasks' = [tasks EXCEPT ![t] =
      [ LoadData EXCEPT !.resp =
          IF ok THEN [NoResp EXCEPT !.ok = TRUE, !.routes = ServeRoutesGet(dbRoutes),
                                    !.markers = Reverse(dbMarkers)]
          ELSE NoResp ]]

\* routes without a color default to blue
RoutesWithColors(routes) ==
  [ i \in 1..Len(routes) |->
      [ routes[i] EXCEPT !.color = IF @ = NoColor THEN "#0000FF" ELSE @ ] ]

LoadDataDone(t) ==
  /\ Resumes(t, "loadData", "loadData.after")
  /\ savedRoutes' = IF tasks[t].resp.ok
                    THEN RoutesWithColors(tasks[t].resp.routes)
                    ELSE savedRoutes
  /\ markers' = IF tasks[t].resp.ok THEN tasks[t].resp.markers ELSE markers
  /\ tasks' = [tasks EXCEPT ![t] = NoTask]
  /\ UNCHANGED << backendVars, handlers, isAddingRoute, routePoints,
                  selectedRoute, selectedColor, showColorPalette, routeError, errorTimers,
                  hist >>
  /\ UNCHANGED << selectedMarker, showDeleteConfirm, itemToDelete, viewVars,
                  received, lastEvent, confirmed >>

\* ----------------------------------------- frontend: handleStartNewRoute
\* the commits in flight when the build is cancelled (history only)
MarkStale(ts) ==
  [ u \in TaskIds |->
      IF ts[u].kind \in {"finish", "click"}
      THEN [ ts[u] EXCEPT !.stale = TRUE ]
      ELSE ts[u] ]

\* 'Cancel Route': isAddingRoute is set
CancelRoute(t) ==
  /\ FreeTask(t)
  /\ isAddingRoute
  /\ isAddingRoute' = FALSE
  /\ routeError' = ""
  /\ UNCHANGED errorTimers
  /\ showColorPalette' = FALSE
  /\ UpdateRouteState(t, MarkStale(tasks), [NoTask EXCEPT !.kind = "startNew"],
                      "cancel.afterPut", "waypoint", NoPoint)
  /\ hist' = [hist EXCEPT !.chosen = << >>, !.overtaken = {}]
  /\ UNCHANGED << dbRoutes, nextId, dbMarkers, handlers, routePoints, savedRoutes,
                  selectedRoute, selectedColor >>
  /\ UNCHANGED sideVars

\* 'Start New Route': isAddingRoute is not set
StartRoute(t) ==
  /\ FreeTask(t)
  /\ ~isAddingRoute
  /\ hist.builds < MaxBuilds
  /\ isAddingRoute' = TRUE
  /\ showColorPalette' = TRUE
  /\ FetchRouteState(t, tasks, [NoTask EXCEPT !.kind = "startNew"], "start.afterGet")
  /\ hist' = [ hist EXCEPT !.chosen = << >>, !.builds = @ + 1, !.color = NoColor ]
  /\ UNCHANGED << dbRoutes, nextId, dbMarkers, handlers, routePoints, savedRoutes,
                  selectedRoute, selectedColor, routeError, errorTimers >>
  /\ UNCHANGED sideVars

\* after fetchRouteState(): take the saved color, then
\* updateRouteState('start', null)
StartRouteAfterGet(t) ==
  /\ Resumes(t, "startNew", "start.afterGet")
  /\ LET tk == tasks[t]
     IN /\ selectedColor' = IF tk.resp.ok /\ tk.resp.state.color # NoColor
                            THEN tk.resp.state.color
                            ELSE selectedColor
        /\ UpdateRouteState(t, tasks, tk, "start.afterPut", "start", NoPoint)
  /\ UNCHANGED << dbRoutes, nextId, dbMarkers, handlers, isAddingRoute, routePoints,
                  savedRoutes, selectedRoute, showColorPalette, routeError, errorTimers, hist >>
  /\ UNCHANGED sideVars

\* after updateRouteState(): 'Start' clears the messages; setRenderKey
\* refetches the routes
StartNewRouteDone(t) ==
  /\ tasks[t].kind = "startNew"
  /\ tasks[t].pc \in {"start.afterPut", "cancel.afterPut"}
  /\ routeError' = IF tasks[t].pc = "start.afterPut" THEN "" ELSE routeError
  /\ UNCHANGED errorTimers
  /\ LoadDataCall(t)
  /\ UNCHANGED << backendVars, handlers, isAddingRoute, routePoints,
                  savedRoutes, selectedRoute, selectedColor, showColorPalette,
                  hist >>
  /\ UNCHANGED sideVars

\* ----------------------------------------- frontend: handlePlaceSelection
\* selections and clicks still waiting for the session state
PlacesInFlight ==
  Cardinality({ u \in TaskIds : tasks[u].pc \in {"place.afterGet", "click.afterGet"} })

\* a place is chosen in the search box (shown while adding a route)
PlaceSelected(t) ==
  /\ FreeTask(t)
  /\ isAddingRoute
  /\ Len(hist.chosen) + PlacesInFlight < MaxChosen
  /\ Len(routePoints.waypoints) + PlacesInFlight < MaxWaypoints
  /\ \E location \in Points :
       FetchRouteState(t, tasks,
         [NoTask EXCEPT !.kind = "place", !.loc = location], "place.afterGet")
  /\ hist' = [hist EXCEPT !.waiting = Append(@, t)]
  /\ UNCHANGED << dbRoutes, nextId, dbMarkers, handlers, uiVars >>
  /\ UNCHANGED sideVars

\* history: the selections of another place invoked before selection t that
\* still wait for their session state
WaitingBefore(waiting, t) ==
  { waiting[i] : i \in { j \in 1..Len(waiting) :
                           /\ tasks[waiting[j]].loc # tasks[t].loc
                           /\ \E k \in (j + 1)..Len(waiting) : waiting[k] = t } }

\* history: selection t has its session state; when it appends a waypoint
\* the selections still waiting that were invoked before it are overtaken
Answered(h, t, appends) ==
  [ h EXCEPT !.waiting = SelectSeq(@, LAMBDA u : u # t),
             !.overtaken = (IF appends THEN @ \cup WaitingBefore(h.waiting, t)
                                       ELSE @) \ {t} ]

\* after fetchRouteState(): the point is the start when the session state
\* has none, a waypoint (and the end) otherwise
PlaceAfterGet(t) ==
  /\ Resumes(t, "place", "place.afterGet")
  /\ LET tk == tasks[t]
         state == tk.resp.state
     IN IF ~tk.resp.ok
        THEN /\ tasks' = [tasks EXCEPT ![t] = NoTask]
             /\ hist' = Answered(hist, t, FALSE)
             /\ UNCHANGED << routePoints, routeStates >>
        ELSE IF state.startLocation = NoPoint
        THEN /\ routePoints' = [routePoints EXCEPT !.start = tk.loc, !.end = NoPoint]
             /\ UpdateRouteState(t, tasks, tk, "place.afterPut", "start", tk.loc)
             /\ hist' = [Answered(hist, t, FALSE) EXCEPT !.chosen = Append(@, tk.loc)]
        ELSE /\ routePoints' = [routePoints EXCEPT !.end = tk.loc,
                                                   !.waypoints = Append(@, tk.loc)]
             /\ CallDirections(t, tk, "place.afterDir", state.startLocation,
                               tk.loc, << >>)
             /\ hist' = [Answered(hist, t, TRUE) EXCEPT !.chosen = Append(@, tk.loc)]
             /\ UNCHANGED routeStates
  /\ UNCHANGED << dbRoutes, nextId, dbMarkers, handlers, isAddingRoute, savedRoutes,
                  selectedRoute, selectedColor, showColorPalette, routeError, errorTimers >>
  /\ UNCHANGED sideVars

\* after updateRouteState('start', location), or after the preview lookup
PlaceDone(t) ==
  /\ tasks[t].kind = "place"
  /\ tasks[t].pc \in {"place.afterPut", "place.afterDir"}
  /\ IF tasks[t].pc = "place.afterDir" /\ ~tasks[t].resp.ok
     THEN /\ errorTimers < MaxTimers
          /\ routeError' = "Failed to calculate route. Please try again."
          /\ errorTimers' = errorTimers + 1
     ELSE UNCHANGED << routeError, errorTimers >>
  /\ tasks' = [tasks EXCEPT ![t] = NoTask]
  /\ UNCHANGED << backendVars, handlers, isAddingRoute, routePoints,
                  savedRoutes, selectedRoute, selectedColor, showColorPalette,
                  hist >>
  /\ UNCHANGED sideVars

\* a timer set with an error message fires: setRouteError(null)
ErrorTimerFires ==
  /\ errorTimers > 0
  /\ errorTimers' = errorTimers - 1
  /\ routeError' = ""
  /\ UNCHANGED << backendVars, handlers, tasks, isAddingRoute, routePoints,
                  savedRoutes, selectedRoute, selectedColor, showColorPalette,
                  hist >>
  /\ UNCHANGED sideVars

\* ------------------------------------------- frontend: handleFinishRoute
\* the waypoint list is not looked at
FinishValidationStartOnly(state, waypoints) ==
  IF state.startLocation = NoPoint THEN "Please set a start location first"
  ELSE ""

\* the checks made once the session state is read: the message, or ""
FinishValidation(state, waypoints) ==
  IF state.startLocation = NoPoint THEN "Please set a start location first"
  ELSE IF Len(waypoints) = 0 THEN "Please add at least one waypoint"
  ELSE ""

\* the Finish takes the first palette entry, not the selected color
FinishRouteFirstColor(t) ==
  /\ FreeTask(t)
  /\ isAddingRoute
  /\ routePoints.start # NoPoint
  /\ FetchRouteState(t, tasks,
       [NoTask EXCEPT !.kind = "finish", !.cRoutePoints = routePoints,
                      !.cSelectedColor = ROUTE_COLORS[1], !.chosen = hist.chosen],
       "finish.afterGet")
  /\ UNCHANGED << dbRoutes, nextId, dbMarkers, handlers, uiVars, hist >>
  /\ UNCHANGED sideVars

\* 'Finish Route' (offered while adding a route with a local start)
FinishRoute(t) ==
  /\ FreeTask(t)
  /\ isAddingRoute
  /\ routePoints.start # NoPoint
  /\ FetchRouteState(t, tasks,
       [NoTask EXCEPT !.kind = "finish", !.cRoutePoints = routePoints,
                      !.cSelectedColor = selectedColor, !.chosen = hist.chosen],
       "finish.afterGet")
  /\ UNCHANGED << dbRoutes, nextId, dbMarkers, handlers, uiVars, hist >>
  /\ UNCHANGED sideVars

\* after fetchRouteState(): validate, then ask for directions from the
\* session start to the last waypoint via the earlier ones
FinishAfterGet(t) ==
  /\ Resumes(t, "finish", "finish.afterGet")
  /\ LET tk == tasks[t]
         state == tk.resp.state
         waypoints == tk.cRoutePoints.waypoints
     IN IF ~tk.resp.ok
        THEN /\ tasks' = [tasks EXCEPT ![t] = NoTask]
             /\ UNCHANGED << routeError, errorTimers >>
        ELSE IF FinishValidation(state, waypoints) # ""
        THEN /\ routeError' = FinishValidation(state, waypoints)
             /\ UNCHANGED errorTimers
             /\ tasks' = [tasks EXCEPT ![t] = NoTask]
        ELSE /\ CallDirections(t, [tk EXCEPT !.state = state], "finish.afterDir",
                               state.startLocation, Last(waypoints),
                               ButLast(waypoints))
             /\ UNCHANGED << routeError, errorTimers >>
  /\ UNCHANGED << backendVars, handlers, isAddingRoute, routePoints,
                  savedRoutes, selectedRoute, selectedColor, showColorPalette,
                  hist >>
  /\ UNCHANGED sideVars

\* the route is blue whatever was selected
FinishRouteDataFirstColor(state, waypoints, result, color) ==
  [ id |-> 0, start |-> state.startLocation, end |-> Last(waypoints),
    waypoints |-> ButLast(waypoints), overviewPath |-> result.overview_path,
    distance |-> result.distance, duration |-> result.duration,
    color |-> ROUTE_COLORS[1] ]

\* routeData of handleFinishRoute
FinishRouteData(state, waypoints, result, color) ==
  [ id |-> 0, start |-> state.startLocation, end |-> Last(waypoints),
    waypoints |-> ButLast(waypoints), overviewPath |-> result.overview_path,
    distance |-> result.distance, duration |-> result.duration,
    color |-> IF state.color # NoColor THEN state.color ELSE color ]

\* the outer catch of handleFinishRoute: the message shown when the lookup
\* was rejected with 'Directions request failed: ${status}'
FinishLookupMessage(status) == "Error calculating route. Please try again."

\* the record is built and saved whatever the lookup answered
FinishAfterDirAnyStatus(t) ==
  /\ Resumes(t, "finish", "finish.afterDir")
  /\ LET tk == tasks[t]
         routeData == FinishRouteData(tk.state, tk.cRoutePoints.waypoints,
                                      tk.resp.result, tk.cSelectedColor)
     IN CallSaveRoute(t, tk, "finish.afterSave", routeData)
  /\ UNCHANGED << routeStates, dbMarkers, handlers, isAddingRoute, routePoints,
                  savedRoutes, selectedRoute, selectedColor, showColorPalette,
                  routeError, errorTimers, hist >>
  /\ UNCHANGED sideVars

\* after the directions lookup: build the record and save it
FinishAfterDir(t) ==
  /\ Resumes(t, "finish", "finish.afterDir")
  /\ LET tk == tasks[t]
         routeData == FinishRouteData(tk.state, tk.cRoutePoints.waypoints,
                                      tk.resp.result, tk.cSelectedColor)
     IN IF ~tk.resp.ok
        THEN /\ routeError' = FinishLookupMessage(tk.resp.dirStatus)
             /\ UNCHANGED errorTimers
             /\ tasks' = [tasks EXCEPT ![t] = NoTask]
             /\ UNCHANGED << dbRoutes, nextId >>
        ELSE /\ CallSaveRoute(t, tk, "finish.afterSave", routeData)
             /\ UNCHANGED << routeError, errorTimers >>
  /\ UNCHANGED << routeStates, dbMarkers, handlers, isAddingRoute, routePoints,
                  savedRoutes, selectedRoute, selectedColor, showColorPalette,
                  hist >>
  /\ UNCHANGED sideVars

\* after mapApi.saveRoute(): reset the builder and the session state
FinishAfterSave(t) ==
  /\ Resumes(t, "finish", "finish.afterSave")
  /\ LET tk == tasks[t]
     IN IF ~tk.resp.ok
        THEN /\ routeError' = "Error saving route. Please try again."
             /\ UNCHANGED errorTimers
             /\ tasks' = [tasks EXCEPT ![t] = NoTask]
             /\ UNCHANGED << isAddingRoute, routePoints, routeStates, hist >>
        ELSE /\ isAddingRoute' = FALSE
             /\ routePoints' = EmptyRoutePoints
             /\ UpdateRouteState(t, tasks, tk, "finish.afterPut", "waypoint", NoPoint)
             /\ hist' = [hist EXCEPT !.chosen = << >>]
             /\ UNCHANGED << routeError, errorTimers >>
  /\ UNCHANGED << dbRoutes, nextId, dbMarkers, handlers, savedRoutes, selectedRoute,
                  selectedColor, showColorPalette >>
  /\ UNCHANGED sideVars

\* after updateRouteState('waypoint', null)
FinishDone(t) ==
  /\ Resumes(t, "finish", "finish.afterPut")
  /\ tasks' = [tasks EXCEPT ![t] = NoTask]
  /\ UNCHANGED << backendVars, handlers, uiVars, hist >>
  /\ UNCHANGED sideVars

\* ---------------------------------------------- frontend: handleMapClick
\* a click on the map while adding a route and no local start is set
MapClickStart ==
  /\ isAddingRoute
  /\ routePoints.start = NoPoint
  /\ Len(hist.chosen) + PlacesInFlight < MaxChosen
  /\ \E p \in Points :
       /\ routePoints' = [routePoints EXCEPT !.start = p, !.end = NoPoint]
       /\ hist' = [hist EXCEPT !.chosen = Append(@, p)]
  /\ showColorPalette' = TRUE
  /\ UNCHANGED << backendVars, handlers, tasks, isAddingRoute, savedRoutes,
                  selectedRoute, selectedColor, routeError, errorTimers >>
  /\ UNCHANGED sideVars

\* a click on the map while a local start is set and no local end
MapClickEnd(t) ==
  /\ FreeTask(t)
  /\ isAddingRoute
  /\ routePoints.start # NoPoint
  /\ routePoints.end = NoPoint
  /\ Len(hist.chosen) + PlacesInFlight < MaxChosen
  /\ \E p \in Points :
       FetchRouteState(t, tasks,
         [NoTask EXCEPT !.kind = "click", !.loc = p,
                        !.cRoutePoints = routePoints,
                        !.cSavedRoutes = savedRoutes,
                        !.cSelectedColor = selectedColor],
         "click.afterGet")
  /\ UNCHANGED << dbRoutes, nextId, dbMarkers, handlers, uiVars, hist >>
  /\ UNCHANGED sideVars

\* after fetchRouteState(): set the end and ask for directions
MapClickAfterGet(t) ==
  /\ Resumes(t, "click", "click.afterGet")
  /\ LET tk == tasks[t]
     IN IF ~tk.resp.ok
        THEN /\ tasks' = [tasks EXCEPT ![t] = NoTask]
             /\ UNCHANGED << routePoints, hist >>
        ELSE /\ routePoints' = [tk.cRoutePoints EXCEPT !.end = tk.loc]
             /\ hist' = [hist EXCEPT !.chosen = Append(@, tk.loc)]
             /\ CallDirections(t, [tk EXCEPT !.state = tk.resp.state],
                               "click.afterDir", tk.cRoutePoints.start,
                               tk.loc, << >>)
  /\ UNCHANGED << backendVars, handlers, isAddingRoute, savedRoutes,
                  selectedRoute, selectedColor, showColorPalette, routeError, errorTimers >>
  /\ UNCHANGED sideVars

\* newRoute of handleMapClick
ClickRouteData(start, end, result, state, color) ==
  [ id |-> 0, start |-> start, end |-> end, waypoints |-> << >>,
    overviewPath |-> result.overview_path, distance |-> result.distance,
    duration |-> result.duration,
    color |-> IF state.color # NoColor THEN state.color ELSE color ]

\* after the directions lookup: save the route, or report and leave the build
MapClickAfterDir(t) ==
  /\ Resumes(t, "click", "click.afterDir")
  /\ LET tk == tasks[t]
         newRoute == ClickRouteData(tk.cRoutePoints.start, tk.loc,
                                    tk.resp.result, tk.state, tk.cSelectedColor)
     IN IF ~tk.resp.ok
        THEN /\ errorTimers < MaxTimers
             /\ routeError' = "Failed to calculate route. Please try again."
             /\ errorTimers' = errorTimers + 1
             /\ routePoints' = EmptyRoutePoints
             /\ isAddingRoute' = FALSE
             /\ showColorPalette' = FALSE
             /\ tasks' = [tasks EXCEPT ![t] = NoTask]
             /\ hist' = [hist EXCEPT !.chosen = << >>]
             /\ UNCHANGED << dbRoutes, nextId >>
        ELSE /\ CallSaveRoute(t, tk, "click.afterSave", newRoute)
             /\ UNCHANGED << routeError, errorTimers, routePoints, isAddingRoute,
                             showColorPalette, hist >>
  /\ UNCHANGED << routeStates, dbMarkers, handlers, savedRoutes, selectedRoute,
                  selectedColor >>
  /\ UNCHANGED sideVars

\* after mapApi.saveRoute(): append to the list captured at the click, then
\* leave the build
MapClickAfterSave(t) ==
  /\ Resumes(t, "click", "click.afterSave")
  /\ LET tk == tasks[t]
     IN IF tk.resp.ok
        THEN /\ savedRoutes' = Append(tk.cSavedRoutes, tk.resp.route)
             /\ UNCHANGED << routeError, errorTimers >>
        ELSE /\ errorTimers < MaxTimers
             /\ routeError' = "Failed to save route. Please try again."
             /\ errorTimers' = errorTimers + 1
             /\ UNCHANGED savedRoutes
  /\ routePoints' = EmptyRoutePoints
  /\ isAddingRoute' = FALSE
  /\ showColorPalette' = FALSE
  /\ tasks' = [tasks EXCEPT ![t] = NoTask]
  /\ hist' = [hist EXCEPT !.chosen = << >>]
  /\ UNCHANGED << backendVars, handlers, selectedRoute, selectedColor >>
  /\ UNCHANGED sideVars

\* ------------------------------------------ backend: PUT /routes/:id
\* position of the document with the identifier, 0 when there is none
IndexOfId(docs, id) ==
  IF \E i \in 1..Len(docs) : docs[i].id = id
  THEN CHOOSE i \in 1..Len(docs) : docs[i].id = id
  ELSE 0

\* the update replaces the stored document by the fields of the body
ServeRoutesPutReplace(docs, id, color) ==
  LET i == IndexOfId(docs, id)
      updatedRoute == [ NoRoute EXCEPT !.id = id, !.color = color ]
  IN IF i = 0
     THEN [ docs |-> docs, status |-> 404, route |-> NoRoute ]
     ELSE [ docs |-> [docs EXCEPT ![i] = updatedRoute], status |-> 200,
            route |-> updatedRoute ]

\* router.put('/routes/:id') with the body {color}:
\* findByIdAndUpdate(id, {$set: body}, {new: true}), 404 without a document
ServeRoutesPut(docs, id, color) ==
  LET i == IndexOfId(docs, id)
      updatedRoute == [ docs[i] EXCEPT !.color = color ]
  IN IF i = 0
     THEN [ docs |-> docs, status |-> 404, route |-> NoRoute ]
     ELSE [ docs |-> [docs EXCEPT ![i] = updatedRoute], status |-> 200,
            route |-> updatedRoute ]

\* ----------------------- backend: DELETE /routes/:id, DELETE /markers/:id
\* Model.findById(id): the document with the identifier, or none
FindById(docs, id, none) ==
  IF IndexOfId(docs, id) = 0 THEN none ELSE docs[IndexOfId(docs, id)]

\* the collection without its i-th document
RemoveAt(docs, i) == SubSeq(docs, 1, i - 1) \o SubSeq(docs, i + 1, Len(docs))

\* the delete removes the newest document, whatever the identifier
ServeRoutesDeleteNewest(docs, id) ==
  LET i == IndexOfId(docs, id)
  IN IF ~WellFormedId(id) THEN [ docs |-> docs, status |-> 400 ]
     ELSE IF i = 0 THEN [ docs |-> docs, status |-> 404 ]
     ELSE [ docs |-> RemoveAt(docs, Len(docs)), status |-> 204 ]

\* router.delete('/routes/:id'): Route.findByIdAndDelete(id); 404 without
\* a document, 400 when the identifier does not cast, 204 and no body
ServeRoutesDelete(docs, id) ==
  LET i == IndexOfId(docs, id)
  IN IF ~WellFormedId(id) THEN [ docs |-> docs, status |-> 400 ]
     ELSE IF i = 0 THEN [ docs |-> docs, status |-> 404 ]
     ELSE [ docs |-> RemoveAt(docs, i), status |-> 204 ]

\* router.delete('/markers/:id'): Marker.findByIdAndDelete(id)
ServeMarkersDelete(docs, id) ==
  LET i == IndexOfId(docs, id)
  IN IF ~WellFormedId(id) THEN [ docs |-> docs, status |-> 400 ]
     ELSE IF i = 0 THEN [ docs |-> docs, status |-> 404 ]
     ELSE [ docs |-> RemoveAt(docs, i), status |-> 204 ]

\* Marker.find().sort({createdAt: -1})
ServeMarkersGet(docs) == Reverse(docs)

\* ------------------------------------- frontend: handleRouteColorChange
\* prev.map(route => route._id === id ? replacement : route)
ReplaceRoute(routes, id, route) ==
  [ i \in 1..Len(routes) |-> IF routes[i].id = id THEN route ELSE routes[i] ]

\* fetch(.../routes/:id, PUT {color}): answered by the store (200 or 404),
\* refused by the store with an error (500), applied with the answer lost, or
\* not delivered
CallUpdateRoute(t, tk, label, id, color) ==
  \E outcome \in {"answered", "error", "lost", "fail"} :
    LET served == ServeRoutesPut(dbRoutes, id, color)
        applied == outcome \in {"answered", "lost"} /\ served.status = 200
    IN /\ dbRoutes' = IF applied THEN served.docs ELSE dbRoutes
       /\ tasks' = [tasks EXCEPT ![t] = Awaiting(tk, label, "PUT /routes/:id",
            CASE outcome = "answered" ->
                   [NoResp EXCEPT !.ok = (served.status = 200),
                                  !.status = served.status,
                                  !.route = served.route]
              [] outcome = "error" -> [NoResp EXCEPT !.status = 500]
              [] OTHER -> NoResp)]

\* handleRouteClick: a route of the list is clicked
RouteClick ==
  /\ \E i \in 1..Len(savedRoutes) : selectedRoute' = savedRoutes[i]
  /\ showColorPalette' = TRUE
  /\ UNCHANGED << backendVars, handlers, tasks, isAddingRoute, routePoints,
                  savedRoutes, selectedColor, routeError, errorTimers, hist >>
  /\ UNCHANGED sideVars

\* a color of the selected route's palette is pressed: the list and the
\* selected copy are updated at once, then the store is asked
RouteColorChange(t) ==
  /\ FreeTask(t)
  /\ selectedRoute # NoRoute
  /\ showColorPalette
  /\ \E color \in ColorChoices :
       LET updatedRoute == [ selectedRoute EXCEPT !.color = color ]
       IN /\ savedRoutes' = ReplaceRoute(savedRoutes, selectedRoute.id, updatedRoute)
          /\ selectedRoute' = updatedRoute
          /\ CallUpdateRoute(t,
               [NoTask EXCEPT !.kind = "colorChange",
                              !.cSelectedRoute = selectedRoute, !.color = color],
               "color.afterPut", selectedRoute.id, color)
  /\ UNCHANGED << routeStates, nextId, dbMarkers, handlers, isAddingRoute, routePoints,
                  selectedColor, showColorPalette, routeError, errorTimers, hist >>
  /\ UNCHANGED sideVars

\* the failure is reported and the optimistic color stays
RouteColorChangeDoneNoRevert(t) ==
  /\ Resumes(t, "colorChange", "color.afterPut")
  /\ LET tk == tasks[t]
     IN IF tk.resp.ok
        THEN /\ savedRoutes' = ReplaceRoute(savedRoutes, tk.cSelectedRoute.id,
                                            tk.resp.route)
             /\ selectedRoute' = tk.resp.route
             /\ showColorPalette' = FALSE
             /\ UNCHANGED << routeError, errorTimers >>
        ELSE /\ routeError' = "Failed to update route color"
             /\ UNCHANGED errorTimers
             /\ UNCHANGED << savedRoutes, selectedRoute, showColorPalette >>
  /\ tasks' = [tasks EXCEPT ![t] = NoTask]
  /\ UNCHANGED << backendVars, handlers, isAddingRoute, routePoints,
                  selectedColor, hist >>
  /\ UNCHANGED sideVars

\* the answer: take the store's copy, or report and put the captured copy back
RouteColorChangeDone(t) ==
  /\ Resumes(t, "colorChange", "color.afterPut")
  /\ LET tk == tasks[t]
     IN IF tk.resp.ok
        THEN /\ savedRoutes' = ReplaceRoute(savedRoutes, tk.cSelectedRoute.id,
                                            tk.resp.route)
             /\ selectedRoute' = tk.resp.route
             /\ showColorPalette' = FALSE
             /\ UNCHANGED << routeError, errorTimers >>
        ELSE /\ routeError' = "Failed to update route color"
             /\ UNCHANGED errorTimers
             /\ savedRoutes' = ReplaceRoute(savedRoutes, tk.cSelectedRoute.id,
                                            tk.cSelectedRoute)
             /\ selectedRoute' = tk.cSelectedRoute
             /\ UNCHANGED showColorPalette
  /\ tasks' = [tasks EXCEPT ![t] = NoTask]
  /\ UNCHANGED << backendVars, handlers, isAddingRoute, routePoints,
                  selectedColor, hist >>
  /\ UNCHANGED sideVars

\* ------------------------------------------- frontend: handleColorSelect
\* a color of the build palette is pressed (the palette is shown while a
\* route is added and showColorPalette is set): setSelectedColor(color), then
\* updateRouteState('color', color)
ColorSelect(t) ==
  /\ FreeTask(t)
  /\ isAddingRoute
  /\ showColorPalette
  /\ \E color \in ColorChoices :
       /\ selectedColor' = color
       /\ UpdateRouteState(t, tasks,
            [NoTask EXCEPT !.kind = "colorSelect", !.color = color,
                           !.cSelectedRoute = selectedRoute],
            "select.afterPut", "color", NoPoint)
       /\ hist' = [hist EXCEPT !.color = color, !.lastColor = color]
  /\ UNCHANGED << dbRoutes, nextId, dbMarkers, handlers, isAddingRoute,
                  routePoints, savedRoutes, selectedRoute, showColorPalette,
                  routeError, errorTimers >>
  /\ UNCHANGED sideVars

\* after updateRouteState(): the palette closes; with a selected route the
\* handler goes on into handleRouteColorChange(color)
ColorSelectAfterPut(t) ==
  /\ Resumes(t, "colorSelect", "select.afterPut")
  /\ showColorPalette' = FALSE
  /\ LET tk == tasks[t]
         updatedRoute == [ tk.cSelectedRoute EXCEPT !.color = tk.color ]
     IN IF tk.cSelectedRoute = NoRoute
        THEN /\ tasks' = [tasks EXCEPT ![t] = NoTask]
             /\ UNCHANGED << dbRoutes, savedRoutes, selectedRoute >>
        ELSE /\ savedRoutes' = ReplaceRoute(savedRoutes, tk.cSelectedRoute.id,
                                            updatedRoute)
             /\ selectedRoute' = updatedRoute
             /\ CallUpdateRoute(t, [tk EXCEPT !.kind = "colorChange"],
                                "color.afterPut", tk.cSelectedRoute.id, tk.color)
  /\ UNCHANGED << routeStates, nextId, dbMarkers, handlers, isAddingRoute,
                  routePoints, selectedColor, routeError, errorTimers, hist >>
  /\ UNCHANGED sideVars

\* ------------------------------ frontend: handleDeleteClick, confirmDelete
\* array.filter(item => item._id !== id)
WithoutId(list, id) == SelectSeq(list, LAMBDA item : item.id # id)

\* mapApi.deleteRoute(id): answered by the store (204, 404 or 400),
\* applied with the answer lost, or not delivered
CallDeleteRoute(t, tk, label, id) ==
  \E outcome \in {"answered", "lost", "fail"} :
    LET served == ServeRoutesDelete(dbRoutes, id)
    IN /\ dbRoutes' = IF outcome # "fail" THEN served.docs ELSE dbRoutes
       /\ tasks' = [tasks EXCEPT ![t] = Awaiting(tk, label, "DELETE /routes/:id",
            IF outcome = "answered"
            THEN [NoResp EXCEPT !.ok = (served.status = 204),
                                !.status = served.status]
            ELSE NoResp)]

\* mapApi.deleteMarker(id)
CallDeleteMarker(t, tk, label, id) ==
  \E outcome \in {"answered", "lost", "fail"} :
    LET served == ServeMarkersDelete(dbMarkers, id)
    IN /\ dbMarkers' = IF outcome # "fail" THEN served.docs ELSE dbMarkers
       /\ tasks' = [tasks EXCEPT ![t] = Awaiting(tk, label, "DELETE /markers/:id",
            IF outcome = "answered"
            THEN [NoResp EXCEPT !.ok = (served.status = 204),
                                !.status = served.status]
            ELSE NoResp)]

\* handleMarkerClick: a marker of the map is clicked
MarkerClick ==
  /\ \E i \in 1..Len(markers) : selectedMarker' = markers[i]
  /\ selectedRoute' = NoRoute
  /\ UNCHANGED << backendVars, handlers, tasks, isAddingRoute, routePoints,
                  savedRoutes, selectedColor, showColorPalette, routeError,
                  errorTimers, hist >>
  /\ UNCHANGED << markers, showDeleteConfirm, itemToDelete, viewVars, received,
                  lastEvent, confirmed >>

\* the item the 'Delete' button of the selected marker, or the 'Delete
\* Route' button of the selected route, passes to handleDeleteClick
DeleteButton(type) ==
  IF type = "marker"
  THEN [ type |-> type, id |-> selectedMarker.id ]
  ELSE [ type |-> type, id |-> selectedRoute.id ]

\* the button removes the item from the list at once
DeleteClickRemoves(type) ==
  /\ DeleteButton(type).id # NoId
  /\ itemToDelete' = DeleteButton(type)
  /\ showDeleteConfirm' = TRUE
  /\ IF type = "marker"
     THEN /\ markers' = WithoutId(markers, DeleteButton(type).id)
          /\ UNCHANGED savedRoutes
     ELSE /\ savedRoutes' = WithoutId(savedRoutes, DeleteButton(type).id)
          /\ UNCHANGED markers
  /\ UNCHANGED << backendVars, handlers, tasks, isAddingRoute, routePoints,
                  selectedRoute, selectedColor, showColorPalette,
                  routeError, errorTimers, hist >>
  /\ UNCHANGED << selectedMarker, viewVars, received, lastEvent, confirmed >>

\* handleDeleteClick(type, id): the dialog opens for the item
DeleteClick(type) ==
  /\ DeleteButton(type).id # NoId
  /\ itemToDelete' = DeleteButton(type)
  /\ showDeleteConfirm' = TRUE
  /\ UNCHANGED << backendVars, handlers, tasks, isAddingRoute, routePoints,
                  savedRoutes, selectedRoute, selectedColor, showColorPalette,
                  routeError, errorTimers, hist >>
  /\ UNCHANGED << markers, selectedMarker, viewVars, received, lastEvent,
                  confirmed >>

\* the dialog is shown
DialogShown == showDeleteConfirm /\ itemToDelete # NoItem

\* 'Cancel' in the dialog: setShowDeleteConfirm(false)
CancelDelete ==
  /\ DialogShown
  /\ showDeleteConfirm' = FALSE
  /\ UNCHANGED << backendVars, handlers, tasks, isAddingRoute, routePoints,
                  savedRoutes, selectedRoute, selectedColor, showColorPalette,
                  routeError, errorTimers, hist >>
  /\ UNCHANGED << markers, selectedMarker, itemToDelete, viewVars, received,
                  lastEvent, confirmed >>

\* 'Delete' in the dialog: confirmDelete filters the rendered list, calls
\* deleteMarker or deleteRoute, and closes the dialog
ConfirmDelete(t) ==
  /\ FreeTask(t)
  /\ DialogShown
  /\ LET id == itemToDelete.id
         tk == [NoTask EXCEPT !.kind = "delete", !.item = itemToDelete]
     IN IF itemToDelete.type = "marker"
        THEN /\ markers' = WithoutId(markers, id)
             /\ CallDeleteMarker(t, tk, "delete.after", id)
             /\ UNCHANGED << savedRoutes, dbRoutes >>
        ELSE /\ savedRoutes' = WithoutId(savedRoutes, id)
             /\ CallDeleteRoute(t, tk, "delete.after", id)
             /\ UNCHANGED << markers, dbMarkers >>
  /\ showDeleteConfirm' = FALSE
  /\ itemToDelete' = NoItem
  /\ selectedMarker' = NoMarker
  /\ selectedRoute' = NoRoute
  /\ confirmed' = confirmed \cup { itemToDelete }
  /\ UNCHANGED << routeStates, nextId, handlers, isAddingRoute, routePoints,
                  selectedColor, showColorPalette, routeError, errorTimers, hist >>
  /\ UNCHANGED << viewVars, received, lastEvent >>

\* deleteRoute and deleteMarker after the await: the item is filtered out
\* of the list; a failed route delete is reported for three seconds, a
\* failed marker delete is logged
DeleteDone(t) ==
  /\ Resumes(t, "delete", "delete.after")
  /\ LET tk == tasks[t]
         id == tk.item.id
     IN IF tk.item.type = "marker"
        THEN /\ markers' = IF tk.resp.ok THEN WithoutId(markers, id) ELSE markers
             /\ UNCHANGED << savedRoutes, routeError, errorTimers >>
        ELSE /\ UNCHANGED markers
             /\ IF tk.resp.ok
                THEN /\ savedRoutes' = WithoutId(savedRoutes, id)
                     /\ UNCHANGED << routeError, errorTimers >>
                ELSE /\ errorTimers < MaxTimers
                     /\ routeError' = "Error deleting route"
                     /\ errorTimers' = errorTimers + 1
                     /\ UNCHANGED savedRoutes
  /\ tasks' = [tasks EXCEPT ![t] = NoTask]
  /\ UNCHANGED << backendVars, handlers, isAddingRoute, routePoints,
                  selectedRoute, selectedColor, showColorPalette, hist >>
  /\ UNCHANGED << selectedMarker, showDeleteConfirm, itemToDelete, viewVars,
                  received, lastEvent, confirmed >>

\* ------------------------------------------ frontend: location tracking
\* the state of the route builder and of the store
builderVars == << backendVars, handlers, tasks, uiVars, hist >>

\* positions the device reports
Samples == { PtA, PtB }

NoWatch == [ on |-> FALSE, isRecording |-> FALSE, isFollowingLocation |-> FALSE ]

\* useEffect(..., [isLoaded, isRecording, isFollowingLocation]): the watch
\* of the previous render is cleared and a callback closing over the values
\* of this render is registered, once the script has loaded
WatchPosition(loaded, recording, following) ==
  IF loaded
  THEN [ on |-> TRUE, isRecording |-> recording, isFollowingLocation |-> following ]
  ELSE NoWatch

NoTimer == [ set |-> FALSE, center |-> NoPoint, zoom |-> 0 ]

\* handleMapCenterChanged with the map at (center, zoom) and the rendered
\* state (stCenter, stZoom): the timer pending afterwards
HandleMapCenterChanged(timer, center, zoom, stCenter, stZoom) ==
  IF center # stCenter \/ zoom # stZoom
  THEN [ set |-> TRUE, center |-> center, zoom |-> zoom ]
  ELSE timer

\* setMapCenter(c): the center prop of GoogleMap moves the map, and the
\* map's center_changed reaches handleMapCenterChanged of the render before
\* or after the update
SetMapCenter(c) ==
  /\ mapCenter' = c
  /\ mapRef' = [mapRef EXCEPT !.center = c]
  /\ IF mapRef.center = c
     THEN UNCHANGED << centerUpdateTimer, lastEvent >>
     ELSE /\ \E stCenter \in { mapCenter, c } :
               centerUpdateTimer' = HandleMapCenterChanged(centerUpdateTimer,
                                      c, mapRef.zoom, stCenter, mapZoom)
          /\ lastEvent' = mapRef'

\* useLoadScript reports the script loaded
ScriptLoaded ==
  /\ ~isLoaded
  /\ isLoaded' = TRUE
  /\ watch' = WatchPosition(TRUE, isRecording, isFollowingLocation)
  /\ UNCHANGED << builderVars, deleteVars, isRecording, isFollowingLocation, path,
                  currentLocation, mapCenter, mapZoom, mapRef, centerUpdateTimer,
                  received, lastEvent, confirmed >>

\* the recording starts with the path it had
ToggleRecordingKeepsPath ==
  /\ isRecording' = ~isRecording
  /\ watch' = WatchPosition(isLoaded, ~isRecording, isFollowingLocation)
  /\ received' = IF ~isRecording THEN << >> ELSE received
  /\ UNCHANGED << builderVars, deleteVars, isLoaded, isFollowingLocation, path,
                  currentLocation, mapCenter, mapZoom, mapRef, centerUpdateTimer,
                  lastEvent, confirmed >>

\* toggleRecording ('Start Recording' / 'Stop Recording')
ToggleRecording ==
  /\ path' = IF ~isRecording THEN << >> ELSE path
  /\ isRecording' = ~isRecording
  /\ watch' = WatchPosition(isLoaded, ~isRecording, isFollowingLocation)
  /\ received' = IF ~isRecording THEN << >> ELSE received
  /\ UNCHANGED << builderVars, deleteVars, isLoaded, isFollowingLocation,
                  currentLocation, mapCenter, mapZoom, mapRef, centerUpdateTimer,
                  lastEvent, confirmed >>

\* 'Follow Location' / 'Following Location'
ToggleFollow ==
  /\ isFollowingLocation' = ~isFollowingLocation
  /\ watch' = WatchPosition(isLoaded, isRecording, ~isFollowingLocation)
  /\ IF ~isFollowingLocation /\ currentLocation # NoPoint
     THEN SetMapCenter(currentLocation)
     ELSE UNCHANGED << mapCenter, mapRef, centerUpdateTimer, lastEvent >>
  /\ UNCHANGED << builderVars, deleteVars, isLoaded, isRecording, path,
                  currentLocation, mapZoom, received, confirmed >>

\* the success callback of watchPosition
PositionSample(p) ==
  /\ watch.on
  /\ watch.isRecording => Len(path) < MaxSamples
  /\ isRecording => Len(received) < MaxSamples
  /\ currentLocation' = p
  /\ path' = IF watch.isRecording THEN Append(path, p) ELSE path
  /\ received' = IF isRecording THEN Append(received, p) ELSE received
  /\ IF watch.isFollowingLocation
     THEN SetMapCenter(p)
     ELSE UNCHANGED << mapCenter, mapRef, centerUpdateTimer, lastEvent >>
  /\ UNCHANGED << builderVars, deleteVars, isLoaded, isRecording,
                  isFollowingLocation, watch, mapZoom, confirmed >>

\* the message of the error callback of watchPosition, by error.code
LocationErrorMessage(code) ==
  CASE code = "TIMEOUT" ->
         "Unable to get your location. Location request timed out. Please check your GPS signal and try again."
    [] code = "POSITION_UNAVAILABLE" ->
         "Unable to get your location. Location information is unavailable. Please check your device settings."
    [] code = "PERMISSION_DENIED" ->
         "Unable to get your location. Location permission denied. Please enable location services in your browser settings."
    [] OTHER -> "Unable to get your location. An unknown error occurred. Please try again."

\* the error callback of watchPosition
PositionError ==
  /\ watch.on
  /\ IF watch.isFollowingLocation
     THEN /\ \E code \in { "TIMEOUT", "POSITION_UNAVAILABLE", "PERMISSION_DENIED", "" } :
               routeError' = LocationErrorMessage(code)
          /\ isFollowingLocation' = FALSE
          /\ watch' = WatchPosition(isLoaded, isRecording, FALSE)
     ELSE UNCHANGED << routeError, isFollowingLocation, watch >>
  /\ UNCHANGED << backendVars, handlers, tasks, isAddingRoute, routePoints,
                  savedRoutes, selectedRoute, selectedColor, showColorPalette,
                  errorTimers, hist, deleteVars, isLoaded, isRecording, path,
                  currentLocation, mapCenter, mapZoom, mapRef, centerUpdateTimer,
                  received, lastEvent, confirmed >>

\* ------------------------------------- frontend: handleMapCenterChanged
\* centers and zooms the user moves the map to
Centers == { InitialCenter, PtA, PtB }
Zooms == { InitialZoom, PlaceZoom }

\* the user pans or zooms: onCenterChanged / onZoomChanged run
\* handleMapCenterChanged
MapChanged(c, z) ==
  /\ isLoaded
  /\ mapRef # [ center |-> c, zoom |-> z ]
  /\ mapRef' = [ center |-> c, zoom |-> z ]
  /\ centerUpdateTimer' = HandleMapCenterChanged(centerUpdateTimer, c, z,
                                                 mapCenter, mapZoom)
  /\ lastEvent' = mapRef'
  /\ UNCHANGED << builderVars, deleteVars, isLoaded, isRecording,
                  isFollowingLocation, path, currentLocation, watch, mapCenter,
                  mapZoom, received, confirmed >>

\* the 100 ms timer fires: setMapCenter(newCenter), setMapZoom(zoom); the
\* props of GoogleMap put the map there
CenterTimerFires ==
  /\ centerUpdateTimer.set
  /\ mapCenter' = centerUpdateTimer.center
  /\ mapZoom' = centerUpdateTimer.zoom
  /\ mapRef' = [ center |-> centerUpdateTimer.center, zoom |-> centerUpdateTimer.zoom ]
  /\ centerUpdateTimer' = NoTimer
  /\ lastEvent' = IF mapRef' # mapRef THEN mapRef' ELSE lastEvent
  /\ UNCHANGED << builderVars, deleteVars, isLoaded, isRecording,
                  isFollowingLocation, path, currentLocation, watch, received,
                  confirmed >>

\* the end of handlePlaceSelection, which acts on the view alone:
\* setMapCenter(location), setIsFollowingLocation(false), panTo(location),
\* setZoom(14); the map's events reach handleMapCenterChanged of the
\* render that is current
PlaceRecenter(location) ==
  /\ isLoaded
  /\ mapCenter' = location
  /\ isFollowingLocation' = FALSE
  /\ watch' = WatchPosition(isLoaded, isRecording, FALSE)
  /\ mapRef' = [ center |-> location, zoom |-> PlaceZoom ]
  /\ IF mapRef' = mapRef
     THEN UNCHANGED << centerUpdateTimer, lastEvent >>
     ELSE /\ centerUpdateTimer' = HandleMapCenterChanged(centerUpdateTimer,
                                    location, PlaceZoom, mapCenter, mapZoom)
          /\ lastEvent' = mapRef'
  /\ UNCHANGED << builderVars, deleteVars, isLoaded, isRecording, path,
                  currentLocation, mapZoom, received, confirmed >>

\* the component has mounted: no markers loaded, no dialog, not recording,
\* the map at its initial center and zoom
InitSide ==
  /\ markers = << >>
  /\ selectedMarker = NoMarker
  /\ showDeleteConfirm = FALSE
  /\ itemToDelete = NoItem
  /\ isLoaded = FALSE
  /\ isRecording = FALSE
  /\ isFollowingLocation = FALSE
  /\ path = << >>
  /\ currentLocation = NoPoint
  /\ watch = NoWatch
  /\ mapCenter = InitialCenter
  /\ mapZoom = InitialZoom
  /\ mapRef = [ center |-> InitialCenter, zoom |-> InitialZoom ]
  /\ centerUpdateTimer = NoTimer
  /\ received = << >>
  /\ lastEvent = [ center |-> InitialCenter, zoom |-> InitialZoom ]
  /\ confirmed = {}

\* ------------------------------------------------------------ initial states
InitHist == [ chosen |-> << >>, builds |-> 0, waiting |-> << >>,
              overtaken |-> {}, color |-> NoColor, lastColor |-> NoColor ]

\* an empty store; the component has mounted and loaded no routes
Init ==
  /\ routeStates = << >>
  /\ dbRoutes = << >>
  /\ nextId = 1
  /\ dbMarkers = << >>
  /\ handlers = [c \in ClientIds |-> NoHandler]
  /\ tasks = [t \in TaskIds |-> NoTask]
  /\ isAddingRoute = FALSE
  /\ routePoints = EmptyRoutePoints
  /\ savedRoutes = << >>
  /\ selectedRoute = NoRoute
  /\ selectedColor = ROUTE_COLORS[1]
  /\ showColorPalette = FALSE
  /\ routeError = ""
  /\ errorTimers = 0
  /\ hist = InitHist
  /\ InitSide

\* 'Start New Route' has been pressed on the state above and has settled
InitStarted ==
  /\ routeStates = << [ routeStep |-> "start", startLocation |-> NoPoint,
                        color |-> NoColor ] >>
  /\ dbRoutes = << >>
  /\ nextId = 1
  /\ dbMarkers = << >>
  /\ handlers = [c \in ClientIds |-> NoHandler]
  /\ tasks = [t \in TaskIds |-> NoTask]
  /\ isAddingRoute = TRUE
  /\ routePoints = EmptyRoutePoints
  /\ savedRoutes = << >>
  /\ selectedRoute = NoRoute
  /\ selectedColor = ROUTE_COLORS[1]
  /\ showColorPalette = TRUE
  /\ routeError = ""
  /\ errorTimers = 0
  /\ hist = [ InitHist EXCEPT !.builds = 1 ]
  /\ InitSide

\* the i-th route earlier builds left in the store: from PtA to PtB, every
\* other one through PtNearA
StoredRoute(i) ==
  LET waypoints == IF i % 2 = 0 THEN << PtNearA, PtB >> ELSE << PtB >>
  IN [ FinishRouteData([NoStateDoc EXCEPT !.startLocation = PtA], waypoints,
                       DirectionsResult(PtA, Last(waypoints), ButLast(waypoints)),
                       ROUTE_COLORS[1])
       EXCEPT !.id = i ]

\* 'Start New Route' has been pressed and has settled: on the mounted
\* component, or after a build that selected the second palette color and
\* persisted StoredRoute(1) with it
InitPalette ==
  \/ InitStarted
  \/ /\ routeStates = << [ routeStep |-> "start", startLocation |-> NoPoint,
                           color |-> NoColor ] >>
     /\ dbRoutes = << [ StoredRoute(1) EXCEPT !.color = ROUTE_COLORS[2] ] >>
     /\ nextId = 2
     /\ dbMarkers = << >>
     /\ handlers = [c \in ClientIds |-> NoHandler]
     /\ tasks = [t \in TaskIds |-> NoTask]
     /\ isAddingRoute = TRUE
     /\ routePoints = EmptyRoutePoints
     /\ savedRoutes = RoutesWithColors(ServeRoutesGet(dbRoutes))
     /\ selectedRoute = NoRoute
     /\ selectedColor = ROUTE_COLORS[2]
     /\ showColorPalette = TRUE
     /\ routeError = ""
     /\ errorTimers = 0
     /\ hist = [ InitHist EXCEPT !.builds = 2, !.lastColor = ROUTE_COLORS[2] ]
     /\ InitSide

\* the store holds MaxRoutes routes and the component has loaded them
InitLoaded ==
  /\ routeStates = << >>
  /\ dbRoutes = [ i \in 1..MaxRoutes |-> StoredRoute(i) ]
  /\ nextId = MaxRoutes + 1
  /\ dbMarkers = << >>
  /\ handlers = [c \in ClientIds |-> NoHandler]
  /\ tasks = [t \in TaskIds |-> NoTask]
  /\ isAddingRoute = FALSE
  /\ routePoints = EmptyRoutePoints
  /\ savedRoutes = RoutesWithColors(ServeRoutesGet(dbRoutes))
  /\ selectedRoute = NoRoute
  /\ selectedColor = ROUTE_COLORS[1]
  /\ showColorPalette = FALSE
  /\ routeError = ""
  /\ errorTimers = 0
  /\ hist = InitHist
  /\ InitSide

\* the store holds a route and a marker, the component has loaded them,
\* 'Start New Route' has been pressed and has settled, and a first click on
\* the map has set the local start
InitList ==
  /\ routeStates = << [ routeStep |-> "start", startLocation |-> NoPoint,
                        color |-> NoColor ] >>
  /\ dbRoutes = << StoredRoute(1) >>
  /\ nextId = 3
  /\ dbMarkers = << [ id |-> 2, position |-> PtB ] >>
  /\ handlers = [c \in ClientIds |-> NoHandler]
  /\ tasks = [t \in TaskIds |-> NoTask]
  /\ isAddingRoute = TRUE
  /\ routePoints = [ EmptyRoutePoints EXCEPT !.start = PtA ]
  /\ savedRoutes = RoutesWithColors(ServeRoutesGet(dbRoutes))
  /\ selectedRoute = NoRoute
  /\ selectedColor = ROUTE_COLORS[1]
  /\ showColorPalette = TRUE
  /\ routeError = ""
  /\ errorTimers = 0
  /\ hist = [ InitHist EXCEPT !.builds = 2, !.chosen = << PtA >> ]
  /\ markers = Reverse(dbMarkers)
  /\ selectedMarker = NoMarker
  /\ showDeleteConfirm = FALSE
  /\ itemToDelete = NoItem
  /\ isLoaded = FALSE
  /\ isRecording = FALSE
  /\ isFollowingLocation = FALSE
  /\ path = << >>
  /\ currentLocation = NoPoint
  /\ watch = NoWatch
  /\ mapCenter = InitialCenter
  /\ mapZoom = InitialZoom
  /\ mapRef = [ center |-> InitialCenter, zoom |-> InitialZoom ]
  /\ centerUpdateTimer = NoTimer
  /\ received = << >>
  /\ lastEvent = [ center |-> InitialCenter, zoom |-> InitialZoom ]
  /\ confirmed = {}

\* the store holds MaxRoutes routes and MaxMarkers markers and the
\* component has loaded them
InitDelete ==
  /\ routeStates = << >>
  /\ dbRoutes = [ i \in 1..MaxRoutes |-> StoredRoute(i) ]
  /\ nextId = MaxRoutes + MaxMarkers + 1
  /\ dbMarkers = [ i \in 1..MaxMarkers |->
                     [ id |-> MaxRoutes + i,
                       position |-> IF i % 2 = 1 THEN PtA ELSE PtB ] ]
  /\ handlers = [c \in ClientIds |-> NoHandler]
  /\ tasks = [t \in TaskIds |-> NoTask]
  /\ isAddingRoute = FALSE
  /\ routePoints = EmptyRoutePoints
  /\ savedRoutes = RoutesWithColors(ServeRoutesGet(dbRoutes))
  /\ selectedRoute = NoRoute
  /\ selectedColor = ROUTE_COLORS[1]
  /\ showColorPalette = FALSE
  /\ routeError = ""
  /\ errorTimers = 0
  /\ hist = InitHist
  /\ markers = Reverse(dbMarkers)
  /\ selectedMarker = NoMarker
  /\ showDeleteConfirm = FALSE
  /\ itemToDelete = NoItem
  /\ isLoaded = FALSE
  /\ isRecording = FALSE
  /\ isFollowingLocation = FALSE
  /\ path = << >>
  /\ currentLocation = NoPoint
  /\ watch = NoWatch
  /\ mapCenter = InitialCenter
  /\ mapZoom = InitialZoom
  /\ mapRef = [ center |-> InitialCenter, zoom |-> InitialZoom ]
  /\ centerUpdateTimer = NoTimer
  /\ received = << >>
  /\ lastEvent = [ center |-> InitialCenter, zoom |-> InitialZoom ]
  /\ confirmed = {}

\* ---------------------------------------------- callers of the creates
\* create requests of any caller (c is the requesting client), served at
\* once; the handler record keeps the request and the status of the answer
\* POST /routes with a route body that carries the identifier id
PostRoute(c) ==
  /\ handlers[c].pc = "idle"
  /\ Len(dbRoutes) < MaxRoutes
  /\ nextId <= MaxCreates
  /\ \E id \in SuppliedIds, i \in 1..MaxRoutes :
       LET body == [ StoredRoute(i) EXCEPT !.id = id ]
           served == ServeRoutesPost(dbRoutes, nextId, body)
       IN /\ dbRoutes' = served.docs
          /\ nextId' = IF served.status = 201 THEN nextId + 1 ELSE nextId
          /\ handlers' = [handlers EXCEPT ![c] =
               [ NoHandler EXCEPT !.pc = "done", !.status = served.status,
                   !.req = [NoReq EXCEPT !.method = "POST /routes", !.id = id,
                                         !.route = body] ]]
  /\ UNCHANGED << routeStates, dbMarkers, tasks, uiVars, hist >>
  /\ UNCHANGED sideVars

\* POST /markers with a marker body that carries the identifier id
PostMarker(c) ==
  /\ handlers[c].pc = "idle"
  /\ Len(dbMarkers) < MaxMarkers
  /\ nextId <= MaxCreates
  /\ \E id \in SuppliedIds, position \in Points :
       LET body == [ id |-> id, position |-> position ]
           served == ServeMarkersPost(dbMarkers, nextId, body)
       IN /\ dbMarkers' = served.docs
          /\ nextId' = IF served.status = 201 /\ id = NoId THEN nextId + 1
                                                          ELSE nextId
          /\ handlers' = [handlers EXCEPT ![c] =
               [ NoHandler EXCEPT !.pc = "done", !.status = served.status,
                   !.req = [NoReq EXCEPT !.method = "POST /markers", !.id = id,
                                         !.position = position] ]]
  /\ UNCHANGED << routeStates, dbRoutes, tasks, uiVars, hist >>
  /\ UNCHANGED sideVars

\* identifiers a caller may ask to delete: those in the collection, a
\* placeholder, or ObjectIds of its own making
DeletableIds(docs) ==
  { docs[i].id : i \in 1..Len(docs) } \cup { PlaceholderId } \cup ForeignIds

\* DELETE /routes/:id
DeleteRouteById(c) ==
  /\ handlers[c].pc = "idle"
  /\ \E id \in DeletableIds(dbRoutes) :
       LET served == ServeRoutesDelete(dbRoutes, id)
       IN /\ dbRoutes' = served.docs
          /\ handlers' = [handlers EXCEPT ![c] =
               [ NoHandler EXCEPT !.pc = "done", !.status = served.status,
                   !.req = [NoReq EXCEPT !.method = "DELETE /routes", !.id = id] ]]
  /\ UNCHANGED << routeStates, nextId, dbMarkers, tasks, uiVars, hist >>
  /\ UNCHANGED sideVars

\* DELETE /markers/:id
DeleteMarkerById(c) ==
  /\ handlers[c].pc = "idle"
  /\ \E id \in DeletableIds(dbMarkers) :
       LET served == ServeMarkersDelete(dbMarkers, id)
       IN /\ dbMarkers' = served.docs
          /\ handlers' = [handlers EXCEPT ![c] =
               [ NoHandler EXCEPT !.pc = "done", !.status = served.status,
                   !.req = [NoReq EXCEPT !.method = "DELETE /markers", !.id = id] ]]
  /\ UNCHANGED << routeStates, nextId, dbRoutes, tasks, uiVars, hist >>
  /\ UNCHANGED sideVars

\* ------------------------------------------------------- specifications
\* the session-state store under concurrent clients, await by await
NextState ==
  \E c \in ClientIds :
    \/ ClientGet(c)
    \/ ClientPut(c)
    \/ RS_FindOne(c)
    \/ RS_PreSave(c)
    \/ RS_Insert(c)
    \/ ClientDone(c)

SpecState == Init /\ [][NextState]_vars

\* the stores of routes and markers under create and delete requests of
\* any caller
NextCreate ==
  \E c \in ClientIds :
    \/ PostRoute(c)
    \/ PostMarker(c)
    \/ DeleteRouteById(c)
    \/ DeleteMarkerById(c)
    \/ ClientDone(c)

SpecCreate == Init /\ [][NextCreate]_vars

\* no handler invocation is in flight
Settled == \A t \in TaskIds : Idle(t)

\* the builder used one input at a time: the user acts when the previous
\* handler has settled; up to MaxBuilds builds
NextBuild ==
  \/ ErrorTimerFires
  \/ \E t \in TaskIds :
       \/ Settled /\ StartRoute(t)
       \/ StartRouteAfterGet(t)
       \/ StartNewRouteDone(t)
       \/ LoadDataDone(t)
       \/ Settled /\ CancelRoute(t)
       \/ Settled /\ PlaceSelected(t)
       \/ PlaceAfterGet(t)
       \/ PlaceDone(t)
       \/ Settled /\ FinishRoute(t)
       \/ FinishAfterGet(t)
       \/ FinishAfterDir(t)
       \/ FinishAfterSave(t)
       \/ FinishDone(t)

SpecBuild == Init /\ [][NextBuild]_vars

\* one build with overlapping handlers: the user acts while up to MaxTasks
\* handler invocations are in flight
NextRace ==
  \/ MapClickStart
  \/ ErrorTimerFires
  \/ \E t \in TaskIds :
       \/ CancelRoute(t)
       \/ StartNewRouteDone(t)
       \/ LoadDataDone(t)
       \/ PlaceSelected(t)
       \/ PlaceAfterGet(t)
       \/ PlaceDone(t)
       \/ FinishRoute(t)
       \/ FinishAfterGet(t)
       \/ FinishAfterDir(t)
       \/ FinishAfterSave(t)
       \/ FinishDone(t)
       \/ MapClickEnd(t)
       \/ MapClickAfterGet(t)
       \/ MapClickAfterDir(t)
       \/ MapClickAfterSave(t)

SpecRace == InitStarted /\ [][NextRace]_vars

\* one build with a color selection, one input at a time: the user selects
\* places and a color, clicks the map and a route of the list, and finishes
NextPalette ==
  \/ ErrorTimerFires
  \/ Settled /\ RouteClick
  \/ Settled /\ MapClickStart
  \/ \E t \in TaskIds :
       \/ Settled /\ MapClickEnd(t)
       \/ MapClickAfterGet(t)
       \/ MapClickAfterDir(t)
       \/ MapClickAfterSave(t)
       \/ Settled /\ PlaceSelected(t)
       \/ PlaceAfterGet(t)
       \/ PlaceDone(t)
       \/ Settled /\ ColorSelect(t)
       \/ ColorSelectAfterPut(t)
       \/ RouteColorChangeDone(t)
       \/ Settled /\ FinishRoute(t)
       \/ FinishAfterGet(t)
       \/ FinishAfterDir(t)
       \/ FinishAfterSave(t)
       \/ FinishDone(t)

SpecPalette == InitPalette /\ [][NextPalette]_vars

\* recoloring the routes of a loaded list
NextColor ==
  \/ RouteClick
  \/ \E t \in TaskIds :
       \/ RouteColorChange(t)
       \/ RouteColorChangeDone(t)

SpecColor == InitLoaded /\ [][NextColor]_vars

\* the loaded lists: routes and markers are selected and deleted through
\* the dialog while up to MaxTasks delete requests are in flight
NextDelete ==
  \/ ErrorTimerFires
  \/ RouteClick
  \/ MarkerClick
  \/ CancelDelete
  \/ \E type \in { "marker", "route" } : DeleteClick(type)
  \/ \E t \in TaskIds :
       \/ ConfirmDelete(t)
       \/ DeleteDone(t)

SpecDelete == InitDelete /\ [][NextDelete]_vars

\* a click-commit is waiting for a response
ClickInFlight == \E u \in TaskIds : tasks[u].kind = "click"

\* the loaded list during a build by map clicks: while the commit of the
\* second click is in flight a route is selected, once, and deleted or
\* recolored
NextList ==
  \/ ErrorTimerFires
  \/ ClickInFlight /\ selectedRoute = NoRoute /\ RouteClick
  \/ ClickInFlight /\ DeleteClick("route")
  \/ \E t \in TaskIds :
       \/ ClickInFlight /\ ConfirmDelete(t)
       \/ DeleteDone(t)
       \/ ClickInFlight /\ RouteColorChange(t)
       \/ RouteColorChangeDone(t)
       \/ MapClickEnd(t)
       \/ MapClickAfterGet(t)
       \/ MapClickAfterDir(t)
       \/ MapClickAfterSave(t)

SpecList == InitList /\ [][NextList]_vars

\* 'Start New Route' has settled and two places have been selected: the
\* first is the start of the session state, the second the only waypoint
InitFinish ==
  /\ routeStates = << [ routeStep |-> "start", startLocation |-> PtA,
                        color |-> NoColor ] >>
  /\ dbRoutes = << >>
  /\ nextId = 1
  /\ dbMarkers = << >>
  /\ handlers = [c \in ClientIds |-> NoHandler]
  /\ tasks = [t \in TaskIds |-> NoTask]
  /\ isAddingRoute = TRUE
  /\ routePoints = [ EmptyRoutePoints EXCEPT !.start = PtA, !.end = PtB,
                                             !.waypoints = << PtB >> ]
  /\ savedRoutes = << >>
  /\ selectedRoute = NoRoute
  /\ selectedColor = ROUTE_COLORS[1]
  /\ showColorPalette = TRUE
  /\ routeError = ""
  /\ errorTimers = 0
  /\ hist = [ InitHist EXCEPT !.builds = 1, !.chosen = << PtA, PtB >> ]
  /\ InitSide

\* one build ready to be finished: 'Finish Route' is pressed while up to
\* MaxTasks invocations of handleFinishRoute are in flight
NextFinish ==
  \E t \in TaskIds :
    \/ FinishRoute(t)
    \/ FinishAfterGet(t)
    \/ FinishAfterDir(t)
    \/ FinishAfterSave(t)
    \/ FinishDone(t)

SpecFinish == InitFinish /\ [][NextFinish]_vars

\* the control panel, the device and the map view
NextView ==
  \/ ScriptLoaded
  \/ ToggleRecording
  \/ ToggleFollow
  \/ PositionError
  \/ CenterTimerFires
  \/ \E p \in Samples : PositionSample(p)
  \/ \E c \in Centers, z \in Zooms : MapChanged(c, z)
  \/ \E location \in Samples : PlaceRecenter(location)

SpecView == Init /\ [][NextView]_vars

\* one build by place selections and 'Finish Route', each handler run to its
\* end before the next input
NextTransient ==
  \/ ErrorTimerFires
  \/ \E t \in TaskIds :
       \/ Settled /\ PlaceSelected(t)
       \/ PlaceAfterGet(t)
       \/ PlaceDone(t)
       \/ Settled /\ FinishRoute(t)
       \/ FinishAfterGet(t)
       \/ FinishAfterDir(t)
       \/ FinishAfterSave(t)
       \/ FinishDone(t)

\* the continuation of a handler that awaits a response
HandlerResumes(t) ==
  \/ PlaceAfterGet(t)
  \/ PlaceDone(t)
  \/ FinishAfterGet(t)
  \/ FinishAfterDir(t)
  \/ FinishAfterSave(t)
  \/ FinishDone(t)

\* the event loop runs every timer that is due and every continuation
\* whose response has arrived; the user's inputs are under no obligation
SpecTransient ==
  /\ InitStarted
  /\ [][NextTransient]_vars
  /\ WF_vars(ErrorTimerFires)
  /\ \A t \in TaskIds : WF_vars(HandlerResumes(t))

\* ================================================================ properties
\* the session-state read and nothing else
OnlyStateRead == { "GET /route-state" }

\* both coordinates differ by at most 0.0006 degree: under 67 m north-south
\* and under 67 m east-west, so the two points are less than 100 m apart
WithinHundredMetres(p, q) ==
  /\ p # NoPoint
  /\ q # NoPoint
  /\ Abs(Lat(p) - Lat(q)) <= 6000
  /\ Abs(Lng(p) - Lng(q)) <= 6000

\* the same route up to its color
SameButColor(r, q) == [ r EXCEPT !.color = q.color ] = q

\* task t takes a step of its handler
Steps(t) == tasks'[t].pc # tasks[t].pc

\* C1: while handleStartNewRoute runs, for a cancel or for the start of the
\* next build, the builder's tentative start is unset and its waypoint list
\* is empty.
C1_CancelDiscardsPoints ==
  \A t \in TaskIds :
    tasks[t].kind = "startNew" => routePoints = EmptyRoutePoints

\* C2: the route a successful Finish persists runs from the first point
\* chosen in the build to the last one through the points chosen in between,
\* in order, and so does the directions request.
C2_RouteIsChosenPoints ==
  \A t \in TaskIds :
    LET tk == tasks[t]
        r == tk.resp.route
    IN /\ (tk.kind = "finish" /\ tk.pc = "finish.afterDir" /\ tk.resp.ok)
            => tk.resp.result.overview_path = tk.chosen
       /\ (tk.kind = "finish" /\ tk.pc = "finish.afterSave" /\ tk.resp.ok)
            => << r.start >> \o r.waypoints \o << r.end >> = tk.chosen

\* C3: a Finish whose route has start and end within the tolerance of a
\* route of the loaded list sends no store-create request and leaves the
\* number of persisted routes as it is.
C3_DuplicateRejected ==
  [][ \A t \in TaskIds :
        LET tk == tasks[t]
        IN ( /\ tk.kind = "finish"
             /\ tk.pc = "finish.afterDir"
             /\ tk.resp.ok
             /\ Steps(t)
             /\ IsDuplicate(savedRoutes,
                  FinishRouteData(tk.state, tk.cRoutePoints.waypoints,
                                  tk.resp.result, tk.cSelectedColor)) )
           => ( /\ "POST /routes" \notin tasks'[t].calls
                /\ Len(dbRoutes') = Len(dbRoutes) )
    ]_vars

\* C4: a response that reaches a Finish or a click-commit after its build was
\* cancelled is discarded: the handler ends, and neither the store nor the
\* route list nor the builder nor the session state changes.
C4_StaleResponseDiscarded ==
  [][ \A t \in TaskIds :
        (tasks[t].stale /\ Steps(t))
          => (tasks'[t] = NoTask /\ UNCHANGED << backendVars, uiVars >>)
    ]_vars

\* C5: a color update changes nothing but the color, of the route it is
\* about only: stored routes and list entries keep every other field and
\* their identifier, routes other than the one a color update is about do
\* not change at all, and the selected copy is an entry of the list.
C5_ColorOnly ==
  [][ /\ Len(dbRoutes') = Len(dbRoutes)
      /\ Len(savedRoutes') = Len(savedRoutes)
      /\ \A i \in 1..Len(dbRoutes) :
           /\ SameButColor(dbRoutes'[i], dbRoutes[i])
           /\ dbRoutes'[i] # dbRoutes[i]
                => \E t \in TaskIds :
                     /\ Idle(t)
                     /\ tasks'[t].kind = "colorChange"
                     /\ tasks'[t].cSelectedRoute.id = dbRoutes[i].id
      /\ \A j \in 1..Len(savedRoutes) :
          /\ SameButColor(savedRoutes'[j], savedRoutes[j])
          /\ savedRoutes'[j] # savedRoutes[j]
               => \E t \in TaskIds :
                    /\ tasks'[t] # tasks[t]
                    /\ savedRoutes[j].id \in { tasks[t].cSelectedRoute.id,
                                               tasks'[t].cSelectedRoute.id }
      /\ selectedRoute' # NoRoute
           => \E j \in 1..Len(savedRoutes') : savedRoutes'[j] = selectedRoute'
    ]_vars

\* a color update has been applied to the store and to the list
C5_Witness ==
  /\ Settled
  /\ \E i \in 1..Len(dbRoutes), j \in 1..Len(savedRoutes) :
       /\ dbRoutes[i].color # StoredRoute(dbRoutes[i].id).color
       /\ savedRoutes[j] = dbRoutes[i]
       /\ selectedRoute = savedRoutes[j]

\* the in-memory part of C6: when a color update fails, the list entry and
\* the selected copy are the selected copy as it was when the update was
\* invoked, and the entry was equal to that copy then
RevertsInMemory(t) ==
  LET tk == tasks[t]
  IN /\ (Idle(t) /\ tasks'[t].kind = "colorChange")
          => \E j \in 1..Len(savedRoutes) :
               savedRoutes[j] = tasks'[t].cSelectedRoute
     /\ (tk.kind = "colorChange" /\ ~tk.resp.ok /\ Steps(t))
          => /\ selectedRoute' = tk.cSelectedRoute
             /\ Len(savedRoutes') = Len(savedRoutes)
             /\ \A j \in 1..Len(savedRoutes) :
                  savedRoutes'[j] = IF savedRoutes[j].id = tk.cSelectedRoute.id
                                    THEN tk.cSelectedRoute
                                    ELSE savedRoutes[j]
             /\ dbRoutes' = dbRoutes

\* C6 as stated: when the network call of a color update fails, by a
\* transport error or a non-OK response, the list entry and the selected copy
\* go back to the color before the update, and the stored color is unchanged.
C6_FailureRevertsAll ==
  [][ \A t \in TaskIds :
        /\ RevertsInMemory(t)
        /\ (Idle(t) /\ tasks'[t].kind = "colorChange" /\ ~tasks'[t].resp.ok)
             => dbRoutes' = dbRoutes
    ]_vars

\* C6 amended: the in-memory part as stated; the stored color is unchanged
\* when the store answered with a non-OK response, and after a transport
\* error it is the color before the update or the requested one.
C6_FailureReverts ==
  [][ \A t \in TaskIds :
        /\ RevertsInMemory(t)
        /\ (Idle(t) /\ tasks'[t].kind = "colorChange" /\ ~tasks'[t].resp.ok)
             => IF tasks'[t].resp.status # 0
                THEN dbRoutes' = dbRoutes
                ELSE /\ Len(dbRoutes') = Len(dbRoutes)
                     /\ \A i \in 1..Len(dbRoutes) :
                          \/ dbRoutes'[i] = dbRoutes[i]
                          \/ /\ dbRoutes[i].id = tasks'[t].cSelectedRoute.id
                             /\ dbRoutes'[i] =
                                  [ dbRoutes[i] EXCEPT !.color = tasks'[t].color ]
    ]_vars

\* a failed color update has been rolled back in memory while the store
\* holds the requested color
C6_Witness ==
  /\ Settled
  /\ routeError = "Failed to update route color"
  /\ \E i \in 1..Len(dbRoutes), j \in 1..Len(savedRoutes) :
       /\ savedRoutes[j].id = dbRoutes[i].id
       /\ selectedRoute = savedRoutes[j]
       /\ savedRoutes[j].color = StoredRoute(dbRoutes[i].id).color
       /\ dbRoutes[i].color # savedRoutes[j].color

\* C7: once no color update is outstanding, every route of the list has the
\* color it has in the store.
C7_ListColorIsStoreColor ==
  Settled =>
    \A i \in 1..Len(dbRoutes), j \in 1..Len(savedRoutes) :
      savedRoutes[j].id = dbRoutes[i].id => savedRoutes[j].color = dbRoutes[i].color

\* C8: after any interleaving of GET and PUT /route-state requests the store
\* holds at most one session-state record.
C8_AtMostOneSessionState == Len(routeStates) <= 1

\* C9 as stated: a Finish invoked with an empty waypoint list makes no
\* network call of any kind.
C9_NoNetworkCall ==
  \A t \in TaskIds :
    (tasks[t].kind = "finish" /\ Len(tasks[t].cRoutePoints.waypoints) = 0)
      => tasks[t].calls = {}

\* C9 amended: a Finish that has read a session state without a start, or
\* that was invoked with an empty waypoint list, ends with the matching
\* message having made no request but the session-state read; the store, the
\* tentative points and the route list stay as they are.
C9_RejectedAfterStateRead ==
  [][ \A t \in TaskIds :
        LET tk == tasks[t]
        IN ( /\ tk.kind = "finish"
             /\ tk.pc = "finish.afterGet"
             /\ tk.resp.ok
             /\ Steps(t)
             /\ \/ tk.resp.state.startLocation = NoPoint
                \/ Len(tk.cRoutePoints.waypoints) = 0 )
           => ( /\ tasks'[t] = NoTask
                /\ tk.calls = OnlyStateRead
                /\ routeError' = IF tk.resp.state.startLocation = NoPoint
                                 THEN "Please set a start location first"
                                 ELSE "Please add at least one waypoint"
                /\ UNCHANGED << backendVars, routePoints, savedRoutes,
                                isAddingRoute >> )
    ]_vars

\* a Finish has been rejected for its empty waypoint list
C9_Witness ==
  /\ routeError = "Please add at least one waypoint"
  /\ routePoints.start # NoPoint
  /\ routePoints.waypoints = << >>
  /\ isAddingRoute

\* C10: a Finish whose last point lies within 100 m of the start asks for no
\* directions and sends no store request, and no persisted route ends within
\* 100 m of its start.
C10_NearEndRejected ==
  /\ \A t \in TaskIds :
       ( /\ tasks[t].kind = "finish"
         /\ tasks[t].calls \cap { "directions", "POST /routes" } # {} )
       => ~WithinHundredMetres(tasks[t].state.startLocation,
                               Last(tasks[t].cRoutePoints.waypoints))
  /\ \A i \in 1..Len(dbRoutes) :
       ~WithinHundredMetres(dbRoutes[i].start, dbRoutes[i].end)

\* C11: the waypoint list holds the selected places in the order the user
\* selected them: a selection that a later selection of the same build has
\* overtaken (the later one is already in the list) is not appended behind it.
C11_WaypointsInSelectionOrder ==
  [][ \A t \in TaskIds :
        (tasks[t].kind = "place" /\ t \in hist.overtaken /\ Steps(t))
          => routePoints'.waypoints = routePoints.waypoints
    ]_vars

\* the session-state record is {routeStep, startLocation}
SessionStateIs(docs, routeStep, startLocation) ==
  /\ Len(docs) >= 1
  /\ docs[FindOne(docs)].routeStep = routeStep
  /\ docs[FindOne(docs)].startLocation = startLocation

\* task t sends a session-state write in this step
WritesSessionState(t) ==
  /\ Steps(t)
  /\ "PUT /route-state" \in tasks'[t].calls
  /\ "PUT /route-state" \notin tasks[t].calls

\* C12: when the builder has no start and takes the point the user supplies
\* as the start, by a map click or by a place selection, it sends a
\* session-state write, and a write that reaches the store leaves the record
\* with that point as start location and with step 'waypoint'.
C12_StartPersisted ==
  [][ \A p \in Points :
        ( \/ /\ tasks' = tasks
              /\ routePoints.start = NoPoint
              /\ routePoints'.start = p
           \/ \E t \in TaskIds :
                /\ tasks[t].kind = "place"
                /\ tasks[t].pc = "place.afterGet"
                /\ tasks[t].resp.ok
                /\ tasks[t].resp.state.startLocation = NoPoint
                /\ tasks[t].loc = p
                /\ Steps(t) )
        => ( /\ \E t \in TaskIds : WritesSessionState(t)
             /\ routeStates' # routeStates
                  => SessionStateIs(routeStates', "waypoint", p) )
    ]_vars

\* C13: the step that ends a build, by a committed route, by a failed
\* click-commit or by a cancel, sends a session-state write, and a write that
\* reaches the store leaves the record with step 'waypoint' and no start.
C13_SessionStateReset ==
  [][ (isAddingRoute /\ ~isAddingRoute')
        => ( /\ \E t \in TaskIds : WritesSessionState(t)
             /\ routeStates' # routeStates
                  => SessionStateIs(routeStates', "waypoint", NoPoint) )
    ]_vars

\* C14: pressing a color of the build palette leaves the start location of
\* the session state and the builder's tentative start and waypoints as they
\* are.
C14_ColorSelectKeepsPoints ==
  [][ \A t \in TaskIds :
        (Idle(t) /\ tasks'[t].kind = "colorSelect")
          => ( /\ routePoints' = routePoints
               /\ Len(routeStates') = Len(routeStates)
               /\ \A i \in 1..Len(routeStates) :
                    routeStates'[i].startLocation = routeStates[i].startLocation )
    ]_vars

\* the values of the palette
PaletteValues == { ROUTE_COLORS[i] : i \in 1..Len(ROUTE_COLORS) }

\* the commit of task t sends its store-create request in this step
Commits(t) ==
  /\ tasks[t].kind \in {"finish", "click"}
  /\ tasks[t].pc \in {"finish.afterDir", "click.afterDir"}
  /\ tasks[t].resp.ok
  /\ Steps(t)

\* the route the store creates in this step, if it creates one, and the
\* route it answers the commit of task t with, if it answers, have color c
CreatesWithColor(t, c) ==
  /\ dbRoutes' # dbRoutes
       => /\ Len(dbRoutes') = Len(dbRoutes) + 1
          /\ dbRoutes'[Len(dbRoutes')].color = c
  /\ tasks'[t].resp.ok => tasks'[t].resp.route.color = c

\* C15: a commit of a build in which a color was selected creates its route
\* with the color selected last, a value of the palette.
C15_SelectedColorPersisted ==
  [][ \A t \in TaskIds :
        (Commits(t) /\ hist.color # NoColor)
          => (CreatesWithColor(t, hist.color) /\ hist.color \in PaletteValues)
    ]_vars

\* a build on the mounted component has selected the second palette color
\* and has persisted its route with it
C15_Witness ==
  /\ hist.builds = 1
  /\ hist.color = ROUTE_COLORS[2]
  /\ ~isAddingRoute
  /\ Len(dbRoutes) = 1
  /\ dbRoutes[1].color = ROUTE_COLORS[2]

\* C16 as stated: a commit of a build in which no color was selected creates
\* its route with the first palette entry.
C16_DefaultColorEveryBuild ==
  [][ \A t \in TaskIds :
        (Commits(t) /\ hist.color = NoColor)
          => CreatesWithColor(t, ROUTE_COLORS[1])
    ]_vars

\* C16 amended: a commit of a build in which no color was selected creates
\* its route with the color selected last in an earlier build, and with the
\* first palette entry when no color was selected since the component mounted.
C16_LastSelectedColor ==
  [][ \A t \in TaskIds :
        (Commits(t) /\ hist.color = NoColor)
          => CreatesWithColor(t, IF hist.lastColor = NoColor THEN ROUTE_COLORS[1]
                                                             ELSE hist.lastColor)
    ]_vars

\* a build without a color selection has persisted its route with the color
\* an earlier build selected
C16_Witness ==
  /\ hist.builds = 2
  /\ hist.color = NoColor
  /\ ~isAddingRoute
  /\ Len(dbRoutes) = 2
  /\ dbRoutes[2].color = ROUTE_COLORS[2]
  /\ hist.lastColor = ROUTE_COLORS[2]

\* C17: a create of a route or of a marker, with or without an identifier in
\* its body, succeeds, and the record it creates has the identifier the store
\* assigns, never the one supplied.
C17_CreateDiscardsSuppliedId ==
  [][ \A c \in ClientIds :
        LET req == handlers'[c].req
            docs == IF req.method = "POST /routes" THEN dbRoutes ELSE dbMarkers
            docsAfter == IF req.method = "POST /routes" THEN dbRoutes'
                                                        ELSE dbMarkers'
        IN ( /\ handlers[c].pc = "idle"
             /\ req.method \in {"POST /routes", "POST /markers"} )
           => ( /\ handlers'[c].status = 201
                /\ Len(docsAfter) = Len(docs) + 1
                /\ docsAfter[Len(docsAfter)].id = nextId
                /\ docsAfter[Len(docsAfter)].id \notin SuppliedIds )
    ]_vars

\* task t is a commit that takes the answer of its directions lookup
TakesDirections(t) ==
  /\ tasks[t].kind \in {"finish", "click"}
  /\ tasks[t].pc \in {"finish.afterDir", "click.afterDir"}
  /\ Steps(t)

\* C18: a route enters the store only by a commit whose directions lookup
\* was answered OK, with a start, an end and the overview path of that
\* answer; a commit whose lookup failed sends no store-create request and
\* stores nothing.
C18_PersistedAfterDirections ==
  [][ /\ dbRoutes' # dbRoutes
           => \E t \in TaskIds :
                /\ TakesDirections(t)
                /\ tasks[t].resp.dirStatus = "OK"
                /\ Len(dbRoutes') = Len(dbRoutes) + 1
                /\ LET r == dbRoutes'[Len(dbRoutes')]
                   IN /\ r.start # NoPoint
                      /\ r.end # NoPoint
                      /\ r.overviewPath = tasks[t].resp.result.overview_path
                      /\ r.overviewPath # << >>
      /\ \A t \in TaskIds :
           (TakesDirections(t) /\ tasks[t].resp.dirStatus # "OK")
             => /\ "POST /routes" \notin tasks'[t].calls
                /\ tasks'[t] = NoTask
    ]_vars

\* a commit has persisted a route and the lookup of another commit of the
\* build has failed
C18_Witness ==
  /\ Len(dbRoutes) >= 1
  /\ Len(dbRoutes[1].overviewPath) >= 2
  /\ routeError \in { "Error calculating route. Please try again.",
                      "Failed to calculate route. Please try again." }
  /\ ~isAddingRoute

\* C19: when the store-create of a commit is answered with the created
\* record, the step that takes the answer puts that record, under its
\* store-assigned identifier, into the in-memory route list.
C19_CreatedRouteInList ==
  [][ \A t \in TaskIds :
        ( /\ tasks[t].kind \in {"finish", "click"}
          /\ tasks[t].pc \in {"finish.afterSave", "click.afterSave"}
          /\ tasks[t].resp.ok
          /\ Steps(t) )
        => \E j \in 1..Len(savedRoutes') :
             /\ savedRoutes'[j] = tasks[t].resp.route
             /\ savedRoutes'[j].id # NoId
    ]_vars

\* C20: a Finish whose directions lookup failed ends without another
\* request, and the message it shows is the message of the status the lookup
\* failed with and of no other failure status.
C20_FailureClassified ==
  [][ \A t \in TaskIds :
        ( /\ tasks[t].kind = "finish"
          /\ tasks[t].pc = "finish.afterDir"
          /\ tasks[t].resp.dirStatus # "OK"
          /\ Steps(t) )
        => ( /\ tasks'[t] = NoTask
             /\ routeError' = FinishLookupMessage(tasks[t].resp.dirStatus)
             /\ \A status \in DirectionsStatus \ {"OK", tasks[t].resp.dirStatus} :
                  routeError' # FinishLookupMessage(status) )
    ]_vars
\* C21: every error message shown for a directions failure, a store
\* failure or a local validation failure is cleared again by a timer,
\* whatever the user does or does not do afterwards
C21_ErrorTransient == (routeError # "") ~> (routeError = "")

\* C22: the recorded path is the sequence of the samples that arrived
\* while recording was on since recording was last started, in arrival
\* order: a sample is appended while recording is on, a sample that
\* arrives while recording is off leaves the path alone, and starting the
\* recording empties the path
C22_PathIsSamplesSinceStart == path = received

\* recording was stopped with two different samples recorded, and a sample
\* that arrived afterwards is not in the path
C22_Witness ==
  /\ ~isRecording
  /\ Len(path) = 2
  /\ path[1] # path[2]
  /\ currentLocation # NoPoint
  /\ currentLocation # path[2]

\* C23: when the debounce timer fires, the center and zoom it stores are
\* those of the most recent change event of the map: a value made pending
\* by an earlier event is never stored once a later event has occurred
C23_MostRecentApplied ==
  [][ (centerUpdateTimer.set /\ ~centerUpdateTimer'.set)
        => (mapCenter' = lastEvent.center /\ mapZoom' = lastEvent.zoom) ]_vars

\* the initial session state: step 'waypoint', no start location
InitialState == [ routeStep |-> "waypoint", startLocation |-> NoPoint,
                  color |-> NoColor ]

\* handler c takes the step that ends its GET /route-state
GetEnds(c) ==
  /\ handlers[c].req.method = "GET"
  /\ handlers[c].pc # "done"
  /\ handlers'[c].pc = "done"

\* C24: a read of the session state on a store without a record creates
\* one record, with step 'waypoint' and no start location, and returns it;
\* a read on a store with a record returns that record and creates none;
\* no operation removes a record
C24_LazilyCreatedNeverDeleted ==
  [][ /\ Len(routeStates') >= Len(routeStates)
      /\ \A c \in ClientIds :
           GetEnds(c) =>
             IF routeStates = << >>
             THEN /\ routeStates' = << InitialState >>
                  /\ handlers'[c].status = 200
                  /\ handlers'[c].state = InitialState
             ELSE handlers'[c].isNew
                  \/ /\ routeStates' = routeStates
                     /\ handlers'[c].status = 200
                     /\ handlers'[c].state = routeStates[1] ]_vars

\* one read has created the record and a later read has returned it
C24_Witness ==
  /\ routeStates = << InitialState >>
  /\ \E c, d \in ClientIds :
       /\ handlers[c].pc = "done" /\ handlers[c].req.method = "GET"
       /\ handlers[c].isNew /\ handlers[c].state = InitialState
       /\ handlers[d].pc = "done" /\ handlers[d].req.method = "GET"
       /\ ~handlers[d].isNew /\ handlers[d].state = InitialState

\* the identifiers of the documents
IdsOf(docs) == { docs[i].id : i \in 1..Len(docs) }

\* the documents other than the one with the identifier are as they were
OthersUnaffected(docs, docsAfter, id, none) ==
  \A x \in (IdsOf(docs) \cup IdsOf(docsAfter)) \ {id} :
    FindById(docsAfter, x, none) = FindById(docs, x, none)

\* handler c answers, in this step, a request of the method with the status
Answers(c, method, status) ==
  /\ handlers[c].pc = "idle"
  /\ handlers'[c].pc = "done"
  /\ handlers'[c].req.method = method
  /\ handlers'[c].status = status

\* C25: a route or marker the store has created is found under the
\* identifier the store gave it, with the fields of the request; once it
\* is deleted under that identifier it is found no longer; and neither the
\* create nor the delete touches any other record of the collection
C25_CreateReadDelete ==
  [][ \A c \in ClientIds :
        LET req == handlers'[c].req
            newRoute == dbRoutes'[Len(dbRoutes')]
            newMarker == dbMarkers'[Len(dbMarkers')]
        IN /\ Answers(c, "POST /routes", 201) =>
                /\ Len(dbRoutes') = Len(dbRoutes) + 1
                /\ FindById(dbRoutes', newRoute.id, NoRoute)
                     = [ req.route EXCEPT !.id = newRoute.id ]
                /\ OthersUnaffected(dbRoutes, dbRoutes', newRoute.id, NoRoute)
           /\ Answers(c, "POST /markers", 201) =>
                /\ Len(dbMarkers') = Len(dbMarkers) + 1
                /\ FindById(dbMarkers', newMarker.id, NoMarker)
                     = [ id |-> newMarker.id, position |-> req.position ]
                /\ OthersUnaffected(dbMarkers, dbMarkers', newMarker.id, NoMarker)
           /\ Answers(c, "DELETE /routes", 204) =>
                /\ FindById(dbRoutes, req.id, NoRoute) # NoRoute
                /\ FindById(dbRoutes', req.id, NoRoute) = NoRoute
                /\ OthersUnaffected(dbRoutes, dbRoutes', req.id, NoRoute)
           /\ Answers(c, "DELETE /markers", 204) =>
                /\ FindById(dbMarkers, req.id, NoMarker) # NoMarker
                /\ FindById(dbMarkers', req.id, NoMarker) = NoMarker
                /\ OthersUnaffected(dbMarkers, dbMarkers', req.id, NoMarker)
    ]_vars

\* a route was deleted from a collection of two and the other one is left,
\* next to a marker
C25_Witness ==
  /\ Len(dbRoutes) = 1
  /\ Len(dbMarkers) = 1
  /\ \E c \in ClientIds :
       /\ handlers[c].pc = "done"
       /\ handlers[c].req.method = "DELETE /routes"
       /\ handlers[c].status = 204
       /\ handlers[c].req.id # dbRoutes[1].id

\* the items of the kind whose identifiers are in the first collection and
\* not in the second
Gone(type, docs, docsAfter) ==
  { [ type |-> type, id |-> id ] : id \in IdsOf(docs) \ IdsOf(docsAfter) }

\* the delete requests issued in this step
DeletesIssued ==
  { tasks'[t].item : t \in { u \in TaskIds :
       \E call \in { "DELETE /routes/:id", "DELETE /markers/:id" } :
          call \in tasks'[u].calls /\ call \notin tasks[u].calls } }

\* C26: a route or marker leaves the in-memory list or the store, and a
\* delete request is issued, only for an item for which 'Delete' was
\* pressed in the confirmation dialog; closing the dialog with 'Cancel'
\* issues no request and leaves the lists and the store as they are
C26_DeleteOnlyConfirmed ==
  [][ /\ ( Gone("route", savedRoutes, savedRoutes') \cup
           Gone("route", dbRoutes, dbRoutes') \cup
           Gone("marker", markers, markers') \cup
           Gone("marker", dbMarkers, dbMarkers') \cup
           DeletesIssued ) \subseteq confirmed'
      /\ ( DialogShown /\ ~DialogShown' /\ confirmed' = confirmed )
           => UNCHANGED << savedRoutes, markers, dbRoutes, dbMarkers, tasks >>
    ]_vars

\* the deletion of a marker was confirmed and has removed it, and the
\* deletion of a route was requested and cancelled: the route is in the
\* list and in the store
C26_Witness ==
  /\ ~showDeleteConfirm
  /\ itemToDelete.type = "route"
  /\ itemToDelete \notin confirmed
  /\ itemToDelete.id \in IdsOf(savedRoutes) \cap IdsOf(dbRoutes)
  /\ \E x \in confirmed :
       /\ x.type = "marker"
       /\ x.id \notin IdsOf(markers) \cup IdsOf(dbMarkers)

\* C29: when the delete request of a confirmed deletion has failed and
\* the item is still in the store, the item is in the in-memory list once
\* the request has completed
C29_FailedDeleteKeepsItem ==
  [][ \A t \in TaskIds :
        ( /\ tasks[t].kind = "delete"
          /\ tasks[t].pc = "delete.after"
          /\ ~tasks[t].resp.ok
          /\ tasks'[t] = NoTask )
        => IF tasks[t].item.type = "route"
           THEN tasks[t].item.id \in IdsOf(dbRoutes')
                  => tasks[t].item.id \in IdsOf(savedRoutes')
           ELSE tasks[t].item.id \in IdsOf(dbMarkers')
                  => tasks[t].item.id \in IdsOf(markers')
    ]_vars

\* C30: when a click-commit has created its route, the list after the
\* append is the list as it was just before, with the deletions, additions
\* and recolourings made while the commit was in flight, plus the new route
C30_AppendKeepsChanges ==
  [][ \A t \in TaskIds :
        ( /\ tasks[t].kind = "click"
          /\ tasks[t].pc = "click.afterSave"
          /\ tasks[t].resp.ok
          /\ tasks'[t] = NoTask )
        => savedRoutes' = Append(savedRoutes, tasks[t].resp.route)
    ]_vars

\* C27: the one build persists at most one route, also when 'Finish Route'
\* is pressed again while an earlier finish is waiting for a response
C27_OneRoutePerBuild == Len(dbRoutes) <= 1

\* the start location of the stored session state, NoPoint without a record
SessionStartLocation ==
  IF routeStates = << >> THEN NoPoint ELSE routeStates[1].startLocation

\* C28: during a build, when no handler is in flight, a local start that is
\* set is the start location the session state holds, and a session state
\* without start location goes with an unset local start
C28_StartsAgree ==
  ( isAddingRoute /\ Settled )
    => /\ routePoints.start # NoPoint
            => SessionStartLocation = routePoints.start
       /\ SessionStartLocation = NoPoint => routePoints.start = NoPoint

====
